---- MODULE Spec2Model ----
(***************************************************************************)
(* A model of the concurrency patterns of advanced-golang-concurrency:     *)
(* channel pipelines (generator, multiply, add, repeat, DoWork, DoWork1),  *)
(* the prime-finding pipeline (repeatFn, toInt, primeFinder, take),        *)
(* fan-in (fanIn/multiplex), the or-channel, and the steward.              *)
(*                                                                         *)
(* Goroutines are processes with a program counter.  An unbuffered channel *)
(* is a rendezvous: one action moves the sender past its send and the      *)
(* receiver past its receive.  A closed channel is a close count, so that  *)
(* a second close is visible.  Each pattern has its own specification      *)
(* (SpecPipe, SpecPrime, SpecFan, SpecOr, SpecSteward); the variables of   *)
(* the other patterns stay at their initial values.                        *)
(***************************************************************************)
EXTENDS Integers, Sequences, FiniteSets, TLC

\* ------------------------------------------------------------------ bounds
MaxLen == 2      \* longest list handed to generator / repeat / DoWork
MaxVal == 2      \* the lists hold values 1..MaxVal
NumHandlers == 3 \* handlers the request is replicated over
MaxLate == 2     \* seconds by which goroutines may be late in all
NumQueued == 4   \* items main pushes onto the queue
NumSubscribers == 3 \* handlers subscribed to the button
MaxRecv == 3     \* the consumer stops receiving after this many values

Values == 1..MaxVal

RECURSIVE SeqsUpTo(_)
SeqsUpTo(n) ==
    IF n = 0 THEN {<<>>}
    ELSE LET shorter == SeqsUpTo(n - 1)
         IN  shorter \cup {Append(s, v) : s \in {t \in shorter : Len(t) = n - 1}, v \in Values}

IsPrefix(s, t) == Len(s) <= Len(t) /\ SubSeq(t, 1, Len(s)) = s

\* =========================================================================
\* Linear pipelines: source -> multiply -> add -> multiply -> consumer
\* =========================================================================
VARIABLES
    srcKind,        \* which source stage feeds the pipeline
    nums,           \* integers... / values... / nums... handed to the source
    nStages,        \* how many of Stages are chained behind the source
    done,           \* TRUE once close(done) has run
    pc,             \* pc[0]: source, pc[1..nStages]: stages, pc[nStages+1]: consumer
    val,            \* val[p]: the value stage p is about to send
    idx,            \* position of the source in nums
    heartbeat,      \* pulses buffered in DoWork's heartbeat channel (capacity 1)
    pulse,          \* TRUE when DoWork1's ticker has a tick waiting
    closes,         \* closes[p]: how often the output channel of process p was closed
    heartbeatCloses,\* how often the heartbeat channel was closed
    sendOnClosed,   \* TRUE once a send happened on a channel already closed
    received,       \* what the consumer has received, in order
    firstHb,        \* the first receive from the heartbeat channel: "none" yet,
                    \* a "pulse", a "latePulse" taken from the buffer after the
                    \* close, or the "zero" value of the closed channel
    sleepLeft,      \* seconds of the startup delay (time.Sleep) still to pass
    waited,         \* seconds the consumer has waited in its select
    timeoutLen      \* the consumer's time.After in seconds, 0 for none

pipeVars == <<srcKind, nums, nStages, done, pc, val, idx, heartbeat, pulse,
              closes, heartbeatCloses, sendOnClosed, received, firstHb,
              sleepLeft, waited, timeoutLen>>

timing == <<sleepLeft, waited, timeoutLen>>

\* multiply(done, add(done, multiply(done, intStream, 2), 1), 2)
Stages == <<[op |-> "multiply", k |-> 2], [op |-> "add", k |-> 1], [op |-> "multiply", k |-> 2]>>

SrcKinds == {"generator", "repeat", "DoWork", "DoWork1"}
HasHeartbeat == srcKind \in {"DoWork", "DoWork1"}

Apply(stage, i) == IF stage.op = "multiply" THEN i * stage.k ELSE i + stage.k

Consumer == nStages + 1

\* The consumer ranges over the results at once, or waits for a first
\* heartbeat before it does.
ConsumerStarts == IF HasHeartbeat THEN {"range", "waitHb"} ELSE {"range"}

\* =========================================================================
\* The prime-finding pipeline:
\*   take(done, primeFinder(done, toInt(done, repeatFn(done, rand))), num)
\* =========================================================================
VARIABLES
    primeDone,      \* TRUE once close(done) has run
    ppc,            \* program counter of repeatFn, toInt, primeFinder, take, main
    pval,           \* the value toInt, primeFinder and take hold
    takeI,          \* take's loop counter i
    primes,         \* how many values main has received from take
    pcloses,        \* close count of each stage's output channel
    crashed         \* TRUE once an unrecovered panic has ended the program

primeVars == <<primeDone, ppc, pval, takeI, primes, pcloses, crashed>>

\* =========================================================================
\* Fan-in: fanIn(done, channels...) and the producers behind its inputs
\* =========================================================================
VARIABLES
    fanDone,        \* TRUE once close(done) has run
    nInputs,        \* len(channels)
    inKind,         \* inKind[j]: how the producer behind channels[j] behaves
    inCount,        \* inCount[j]: how many items that producer has to send
    inSent,         \* inSent[j]: how many of them it has sent
    inCloses,       \* inCloses[j]: close count of channels[j]
    mpc,            \* mpc[j]: program counter of multiplex(channels[j])
    mval,           \* mval[j]: the item multiplex j is about to send
    wg,             \* the WaitGroup counter
    closerPc,       \* the goroutine running wg.Wait(); close(multiplexedStream)
    mergedCloses,   \* close count of multiplexedStream
    fanSendOnClosed,\* TRUE once a multiplex sent on the closed multiplexedStream
    merged,         \* what the consumer has received from multiplexedStream
    fanConsumer,    \* the consumer: "range", or "done" once it saw the close
    readOrder       \* the items in the order the multiplex goroutines read them

fanVars == <<fanDone, nInputs, inKind, inCount, inSent, inCloses, mpc, mval, wg,
             closerPc, mergedCloses, fanSendOnClosed, merged, fanConsumer, readOrder>>

\* =========================================================================
\* The or-channel: the recursive or(channels...) and the two-channel or
\* =========================================================================
VARIABLES
    orN,            \* len(channels) of the outermost call of or
    sigClosed,      \* sigClosed[i]: input channel i (a sig channel) is closed
    orPc,           \* orPc[l]: the goroutine started by the call of or at depth l
    orCloses,       \* orCloses[l]: close count of that call's orDone
    or2Pc,          \* the goroutine of the two-channel or(done, done2)
    or2Closes       \* close count of its channel d

orVars == <<orN, sigClosed, orPc, orCloses, or2Pc, or2Closes>>

\* =========================================================================
\* The steward: newSteward(timeout, startGoroutine)(done, pulseInterval)
\* =========================================================================
VARIABLES
    stewardDone,    \* TRUE once the steward's done has been closed
    wardKind,       \* what startGoroutine starts: "nil" (the irresponsible
                    \* doWork, nil heartbeat) or "faulty" (pulses, then stops)
    stewardPc,      \* "start", "monitor" (top of monitorLoop), "select", "returned"
    started,        \* how many times startGoroutine has been called
    wardDoneClosed, \* wardDoneClosed[w]: the wardDone made for ward w is closed
    wardOrPc,       \* wardOrPc[w]: the goroutine of or(wardDone, done) for ward w
    wardOrCloses,   \* wardOrCloses[w]: close count of the channel ward w was given
    wardPc,         \* wardPc[w]: the goroutine of ward w
    pulsesLeft,     \* pulses the ward behind wardHeartbeat still sends
    timeoutSignal,  \* the steward's timeoutSignal: "none", "pending" or "fired"
    stewardTick,    \* the steward's pulse ticker holds a tick
    elapsed,        \* how many timeoutSignals have fired
    discarded,      \* fired timeoutSignals dropped because a ward pulse won the select
    stewardHbCloses,\* close count of the steward's heartbeat channel
    listener,       \* who ranges over the steward's heartbeat: "none", "ranging", "ended"
    pulseDropped    \* TRUE once a pulse of the steward found no receiver

stewardVars == <<stewardDone, wardKind, stewardPc, started, wardDoneClosed, wardOrPc,
                 wardOrCloses, wardPc, pulsesLeft, timeoutSignal,
                 stewardTick, elapsed, discarded, stewardHbCloses, listener,
                 pulseDropped>>

stewardVarsButPc == <<stewardDone, wardKind, started, wardDoneClosed, wardOrPc,
                      wardOrCloses, wardPc, pulsesLeft, timeoutSignal, stewardTick,
                      elapsed, discarded, stewardHbCloses, listener, pulseDropped>>

\* =========================================================================
\* orDone(done, c), the producer behind c and the consumer of valStream
\* =========================================================================
VARIABLES
    odDone,         \* TRUE once close(done) has run
    cKind,          \* the producer behind c: "closes" c after its values or stays "silent"
    cValues,        \* the values the producer sends on c, in order
    cSent,          \* how many of them orDone has received
    cCloses,        \* close count of c
    odPc,           \* the goroutine of orDone: "select", "send" (inner select), "returned"
    odV,            \* v, the value orDone holds
    valStreamCloses,\* close count of valStream
    odReceived,     \* what the consumer has received from valStream, in order
    odConsumer      \* the consumer: "range", or "done" once it saw the close

orDoneVars == <<odDone, cKind, cValues, cSent, cCloses, odPc, odV, valStreamCloses,
                odReceived, odConsumer>>

\* =========================================================================
\* tee(done, in): its goroutine ranges over orDone(done, in), so c is in and
\* the consumer of valStream is the loop of tee
\* =========================================================================
VARIABLES
    teePc,          \* tee's goroutine: "none", "range", "select", "returned"
    teeVal,         \* val of the current iteration of the range
    teeIter,        \* i of "for i := 0; i < 2; i++"
    outNil,         \* outNil[k]: the shadowed copy of out k has been set to nil
    outCloses,      \* outCloses[k]: close count of out k
    teeOut          \* teeOut[k]: what the consumer of out k has received

teeVars == <<teePc, teeVal, teeIter, outNil, outCloses, teeOut>>

\* =========================================================================
\* take(done, repeat(done, values...), num) and the consumer ranging over it
\* =========================================================================
VARIABLES
    tnDone,         \* TRUE once done has been closed
    repValues,      \* the values handed to repeat
    repPc,          \* repeat's goroutine: "loop", "select", "returned"
    repIdx,         \* index in values of the value repeat sends next
    repCloses,      \* close count of repeat's valueStream
    repHanded,      \* how many sends of repeat have met a receive
    numTake,        \* num
    takeNPc,        \* take's goroutine: "loop", "recv", "select", "returned"
    takeNI,         \* i of "for i := 0; i < num; i++"
    takeNV,         \* the value of <-valueStream take is about to send
    takeStreamCloses, \* close count of takeStream
    taken,          \* what the consumer has received from takeStream
    takeConsumer    \* the consumer: "range", or "done" once it saw the close

takeVars == <<tnDone, repValues, repPc, repIdx, repCloses, repHanded, numTake, takeNPc,
              takeNI, takeNV, takeStreamCloses, taken, takeConsumer>>

\* =========================================================================
\* bridge(done, chanStream): its goroutine ranges over orDone(done, stream)
\* for one stream after the other, so c is the stream of the moment
\* =========================================================================
VARIABLES
    streamLens,     \* streamLens[k]: how many values the k-th inner channel carries
    nStreams,       \* how many inner channels the producer sends on chanStream
    streamsHanded,  \* how many of them bridge has received
    chanStreamCloses, \* close count of chanStream
    bridgePc,       \* bridge's goroutine: "none", "select", "range", "send", "returned"
    bridgeVal,      \* val of the current iteration of the range
    bridgeCloses,   \* close count of bridge's valStream
    bridged,        \* what the consumer has received from bridge's valStream
    bridgeConsumer  \* the consumer: "range", or "done" once it saw the close

bridgeVars == <<streamLens, nStreams, streamsHanded, chanStreamCloses, bridgePc,
                bridgeVal, bridgeCloses, bridged, bridgeConsumer>>

\* =========================================================================
\* The consumer that selects on heartbeat and results in a for loop
\* =========================================================================
VARIABLES
    pulses          \* how many pulses the consumer's select has received

loopVars == <<pulses>>

\* =========================================================================
\* The worker that stops after two iterations, and its observer
\* =========================================================================
VARIABLES
    fwDone,         \* done has been closed
    doneLeft,       \* seconds until the timer of time.AfterFunc expires
    fwPc,           \* where the worker's goroutine is
    fwI,            \* i of the worker's loop
    fwPulse,        \* the pulse ticker holds a tick
    fwWorkGen,      \* the workGen ticker holds a tick
    pulseLeft,      \* seconds until the next tick of pulse
    workGenLeft,    \* seconds until the next tick of workGen
    obsPc,          \* where the observer's loop is
    obsWaited,      \* seconds the observer's select has been waiting
    obsSeen         \* the observer has received a pulse or a result

faultyVars == <<fwDone, doneLeft, fwPc, fwI, fwPulse, fwWorkGen, pulseLeft,
                workGenLeft, obsPc, obsWaited, obsSeen>>

\* =========================================================================
\* Replicated requests
\* =========================================================================
VARIABLES
    replDone,        \* done has been closed
    handlerPc,       \* where each handler is
    handlersWg,      \* counter of the WaitGroup wg
    mainPc,          \* where main is
    firstReturned,   \* the id main received, NoResult before
    resultsReceived  \* how many values main has received from result

replVars == <<replDone, handlerPc, handlersWg, mainPc, firstReturned, resultsReceived>>

\* =========================================================================
\* printGreeting3 and printFarewell3 under one cancellable Context
\* (time in seconds)
\* =========================================================================
VARIABLES
    ctxErr,         \* Err() of main's Context: "nil" while it is not cancelled
    childErr,       \* Err() of the Context genGreeting3 makes with WithTimeout
    deadlineLeft,   \* seconds until the deadline of that Context
    callPc,         \* where each of the two goroutines is
    callErr,        \* the error its call chain returns, "nil" for none
    localeWaited,   \* seconds its select in locale3 has been waiting
    printed,        \* it has printed its "... world!" line
    ctxWg,          \* counter of the WaitGroup wg
    ctxLate         \* seconds that passed while a goroutine could have run

ctxVars == <<ctxErr, childErr, deadlineLeft, callPc, callErr, localeWaited,
             printed, ctxWg, ctxLate>>

\* =========================================================================
\* The queue of length 2 guarded by a sync.Cond
\* =========================================================================
VARIABLES
    condL,          \* who holds c.L: "free", "main" or "remover"
    queueLen,       \* len(queue)
    queueI,         \* i of main's loop: the items added so far
    queuePc,        \* where main is
    removerPc,      \* where each goroutine of removeFromQueue is
    fullAtAdd       \* main appended to a queue that already held two items

queueVars == <<condL, queueLen, queueI, queuePc, removerPc, fullAtAdd>>

\* =========================================================================
\* The Button whose Clicked Cond is broadcast to the subscribed handlers
\* =========================================================================
VARIABLES
    clickedL,          \* Clicked.L is held
    subscriberPc,      \* where the goroutine of each subscribed handler is
    buttonPc,          \* where main is
    subscribed,        \* how many calls of subscribe have returned
    goroutineRunning,  \* counter of the WaitGroup of the subscribe under way
    clickRegistered    \* counter of the WaitGroup clickRegistered

buttonVars == <<clickedL, subscriberPc, buttonPc, subscribed, goroutineRunning,
                clickRegistered>>

\* =========================================================================
\* The producer of five values on a channel with a buffer of four
\* =========================================================================
VARIABLES
    bufStream,      \* the values in the buffer of intStream
    bufClosed,      \* intStream has been closed
    producerPc,     \* where the producer goroutine is
    producerI,      \* i of the producer's loop
    rangePc,        \* where main's range over intStream is
    rangeVal,       \* the value main received last
    pulled,         \* how many values main has received from intStream
    stdoutBuff      \* the lines written to stdoutBuff

bufferedVars == <<bufStream, bufClosed, producerPc, producerI, rangePc, rangeVal,
                  pulled, stdoutBuff>>

\* =========================================================================
\* Two calls of printSum locking two values in opposite orders
\* =========================================================================
VARIABLES
    sumArgs,        \* the values v1, v2 each call of printSum is given
    valueOf,        \* the field value of a and of b
    muHolder,       \* which call holds the mutex of a and of b, 0 for none
    sumPc,          \* where each call of printSum is
    sumPrinted,     \* the sum it has printed, -1 before
    sumWg,          \* counter of the WaitGroup wg
    sumMain         \* where main is

sumVars == <<sumArgs, valueOf, muHolder, sumPc, sumPrinted, sumWg, sumMain>>

\* =========================================================================
\* The hallway: two walkers trying left and right at a common cadence
\* =========================================================================
VARIABLES
    dirCount,       \* left and right: how many walkers are trying each direction
    walkPc,         \* where each walker is
    walkDir,        \* the direction it is trying
    walkI,          \* i of the loop in walk
    walkOut,        \* what it has written to out
    succeeded,      \* the direction its tryDir returned true for, "none" before
    peopleInHallway, \* counter of the WaitGroup peopleInHallway
    hallMain        \* where main is

hallVars == <<dirCount, walkPc, walkDir, walkI, walkOut, succeeded,
              peopleInHallway, hallMain>>

vars == <<pipeVars, primeVars, fanVars, orVars, stewardVars, orDoneVars, teeVars,
    takeVars, bridgeVars, loopVars, faultyVars, replVars, ctxVars, queueVars, buttonVars, bufferedVars, sumVars, hallVars>>

notPipe == <<primeVars, fanVars, orVars, stewardVars, orDoneVars, teeVars,
    takeVars, bridgeVars, loopVars, faultyVars, replVars, ctxVars, queueVars, buttonVars, bufferedVars, sumVars, hallVars>>
notPrime == <<pipeVars, fanVars, orVars, stewardVars, orDoneVars, teeVars,
    takeVars, bridgeVars, loopVars, faultyVars, replVars, ctxVars, queueVars, buttonVars, bufferedVars, sumVars, hallVars>>
notFan == <<pipeVars, primeVars, orVars, stewardVars, orDoneVars, teeVars,
    takeVars, bridgeVars, loopVars, faultyVars, replVars, ctxVars, queueVars, buttonVars, bufferedVars, sumVars, hallVars>>
notOr == <<pipeVars, primeVars, fanVars, stewardVars, orDoneVars, teeVars,
    takeVars, bridgeVars, loopVars, faultyVars, replVars, ctxVars, queueVars, buttonVars, bufferedVars, sumVars, hallVars>>
notSteward == <<pipeVars, primeVars, fanVars, orVars, orDoneVars, teeVars,
    takeVars, bridgeVars, loopVars, faultyVars, replVars, ctxVars, queueVars, buttonVars, bufferedVars, sumVars, hallVars>>
notOrDone == <<pipeVars, primeVars, fanVars, orVars, stewardVars, teeVars,
    takeVars, bridgeVars, loopVars, faultyVars, replVars, ctxVars, queueVars, buttonVars, bufferedVars, sumVars, hallVars>>
notTee == <<pipeVars, primeVars, fanVars, orVars, stewardVars, orDoneVars,
    takeVars, bridgeVars, loopVars, faultyVars, replVars, ctxVars, queueVars, buttonVars, bufferedVars, sumVars, hallVars>>
notTeeNorOrDone == <<pipeVars, primeVars, fanVars, orVars, stewardVars,
    takeVars, bridgeVars, loopVars, faultyVars, replVars, ctxVars, queueVars, buttonVars, bufferedVars, sumVars, hallVars>>
notTakeN == <<pipeVars, primeVars, fanVars, orVars, stewardVars, orDoneVars, teeVars, bridgeVars, loopVars, faultyVars, replVars, ctxVars, queueVars, buttonVars, bufferedVars, sumVars, hallVars>>
notBridge == <<pipeVars, primeVars, fanVars, orVars, stewardVars, orDoneVars, teeVars,
    takeVars, loopVars, faultyVars, replVars, ctxVars, queueVars, buttonVars, bufferedVars, sumVars, hallVars>>
notBridgeNorOrDone == <<pipeVars, primeVars, fanVars, orVars, stewardVars, teeVars,
    takeVars, loopVars, faultyVars, replVars, ctxVars, queueVars, buttonVars, bufferedVars, sumVars, hallVars>>
notPipeNorLoop == <<primeVars, fanVars, orVars, stewardVars, orDoneVars, teeVars,
    takeVars, bridgeVars, faultyVars, replVars, ctxVars, queueVars, buttonVars, bufferedVars, sumVars, hallVars>>
notFaulty == <<pipeVars, primeVars, fanVars, orVars, stewardVars, orDoneVars, teeVars,
    takeVars, bridgeVars, loopVars, replVars, ctxVars, queueVars, buttonVars, bufferedVars, sumVars, hallVars>>
notRepl == <<pipeVars, primeVars, fanVars, orVars, stewardVars, orDoneVars, teeVars,
    takeVars, bridgeVars, loopVars, faultyVars, ctxVars, queueVars, buttonVars, bufferedVars, sumVars, hallVars>>
notCtx == <<pipeVars, primeVars, fanVars, orVars, stewardVars, orDoneVars, teeVars,
    takeVars, bridgeVars, loopVars, faultyVars, replVars, queueVars, buttonVars, bufferedVars, sumVars, hallVars>>
notQueue == <<pipeVars, primeVars, fanVars, orVars, stewardVars, orDoneVars, teeVars,
    takeVars, bridgeVars, loopVars, faultyVars, replVars, ctxVars, buttonVars, bufferedVars, sumVars, hallVars>>
notButton == <<pipeVars, primeVars, fanVars, orVars, stewardVars, orDoneVars, teeVars,
    takeVars, bridgeVars, loopVars, faultyVars, replVars, ctxVars, queueVars, bufferedVars, sumVars, hallVars>>
notBuffered == <<pipeVars, primeVars, fanVars, orVars, stewardVars, orDoneVars, teeVars,
    takeVars, bridgeVars, loopVars, faultyVars, replVars, ctxVars, queueVars, buttonVars, sumVars, hallVars>>
notSum == <<pipeVars, primeVars, fanVars, orVars, stewardVars, orDoneVars, teeVars,
    takeVars, bridgeVars, loopVars, faultyVars, replVars, ctxVars, queueVars, buttonVars, bufferedVars, hallVars>>
notHall == <<pipeVars, primeVars, fanVars, orVars, stewardVars, orDoneVars, teeVars,
    takeVars, bridgeVars, loopVars, faultyVars, replVars, ctxVars, queueVars, buttonVars, bufferedVars, sumVars>>

PipeStart ==
    /\ srcKind \in SrcKinds
    /\ nums \in SeqsUpTo(MaxLen)
    /\ nStages \in 0..Len(Stages)
    /\ done = FALSE
    /\ \E c \in ConsumerStarts :
          pc = [p \in 0..(Len(Stages) + 1) |->
                   IF p = 0 THEN (IF HasHeartbeat THEN "sleep" ELSE "loop")
                   ELSE IF p <= nStages THEN "range"
                   ELSE IF p = nStages + 1 THEN c ELSE "none"]
    /\ val = [p \in 1..Len(Stages) |-> 0]
    /\ idx = 1
    /\ heartbeat = 0
    /\ pulse = FALSE
    /\ closes = [p \in 0..Len(Stages) |-> 0]
    /\ heartbeatCloses = 0
    /\ sendOnClosed = FALSE
    /\ received = <<>>
    /\ firstHb = "none"

\* Without a clock: the startup delay is over whenever the scheduler says so,
\* and the consumer has no timeout.
PipeInit ==
    /\ PipeStart
    /\ sleepLeft = 0
    /\ waited = 0
    /\ timeoutLen = 0

\* close(done): main's deferred close, or a cancellation at any earlier time.
CloseDone ==
    /\ ~done
    /\ done' = TRUE
    /\ UNCHANGED <<srcKind, nums, nStages, pc, val, idx, heartbeat, pulse,
                   closes, heartbeatCloses, sendOnClosed, received, firstHb, timing>>
    /\ UNCHANGED notPipe

\* time.Sleep(2 * time.Second) at the start of DoWork / DoWork1; DoWork1 then
\* creates its ticker.
Sleep ==
    /\ pc[0] = "sleep"
    /\ sleepLeft = 0
    /\ pc' = [pc EXCEPT ![0] = "loop"]
    /\ UNCHANGED <<srcKind, nums, nStages, done, val, idx, heartbeat, pulse,
                   closes, heartbeatCloses, sendOnClosed, received, firstHb, timing>>
    /\ UNCHANGED notPipe

\* heartbeat <- struct{}{} outside a select: the send waits for room in the
\* buffer.
SendHeartbeatBlocking == heartbeat < 1 /\ heartbeat' = heartbeat + 1

\* A pulse sent on a heartbeat channel made without a buffer, with no receiver
\* waiting: the default case is taken.
TrySendHeartbeatUnbuffered == UNCHANGED heartbeat

\* select { case heartbeat <- struct{}{}: default: } on the capacity-1
\* channel: the pulse goes into the buffer if it has room, else it is dropped.
TrySendHeartbeat == heartbeat' = IF heartbeat < 1 THEN heartbeat + 1 ELSE heartbeat

\* A stage written without its "defer close(stream)".
ReturnWithoutClose(p) ==
    /\ pc' = [pc EXCEPT ![p] = IF p = 0 /\ HasHeartbeat THEN "closing" ELSE "returned"]
    /\ UNCHANGED closes

\* The goroutine returns: its deferred close runs.  DoWork and DoWork1 defer
\* close(heartbeat) first and close(intStream) second, so intStream is closed
\* first and the heartbeat in a second step.
Return(p) ==
    /\ closes' = [closes EXCEPT ![p] = @ + 1]
    /\ pc' = [pc EXCEPT ![p] = IF p = 0 /\ HasHeartbeat THEN "closing" ELSE "returned"]

\* The top of the source's for loop.
\*   generator / DoWork / DoWork1: for _, n := range nums
\*   repeat: for { for _, v := range values { ... } }
\* DoWork attempts its heartbeat here, before the select of the iteration.
SourceLoop ==
    /\ pc[0] = "loop"
    /\ IF idx <= Len(nums)
         THEN /\ pc' = [pc EXCEPT ![0] = "select"]
              /\ IF srcKind = "DoWork" THEN TrySendHeartbeat ELSE UNCHANGED heartbeat
              /\ UNCHANGED <<idx, closes>>
         ELSE IF srcKind = "repeat"
           THEN \* the outer for starts the range again; with no values it
                \* never reaches a select
                /\ Len(nums) > 0
                /\ idx' = 1
                /\ UNCHANGED <<pc, heartbeat, closes>>
           ELSE /\ Return(0)
                /\ UNCHANGED <<idx, heartbeat>>
    /\ UNCHANGED <<srcKind, nums, nStages, done, val, pulse,
                   heartbeatCloses, sendOnClosed, received, firstHb, timing>>
    /\ UNCHANGED notPipe

\* repeat(done) with no values: for { for range values {} } spins without ever
\* observing done.
RepeatSpin ==
    /\ srcKind = "repeat"
    /\ pc[0] = "loop"
    /\ Len(nums) = 0
    /\ UNCHANGED vars

\* case <-done: return, in the select of the source or of a stage.
SelectDone(p) ==
    /\ p \in 0..nStages
    /\ pc[p] = "select"
    /\ done
    /\ Return(p)
    /\ UNCHANGED <<srcKind, nums, nStages, done, val, idx, heartbeat, pulse,
                   heartbeatCloses, sendOnClosed, received, firstHb, timing>>
    /\ UNCHANGED notPipe

\* A source that sends the first element in every iteration.
OfferedFirst(p) == IF p = 0 THEN nums[1] ELSE val[p]

\* The value process p offers in its select.
Offered(p) == IF p = 0 THEN nums[idx] ELSE val[p]

\* case stream <- v: the send of process p meets the receive of process p+1,
\* a stage blocked in "for i := range intStream" or the consumer ranging over
\* the pipeline.
Send(p) ==
    /\ p \in 0..nStages
    /\ pc[p] = "select"
    /\ pc[p + 1] = "range"
    /\ sendOnClosed' = (sendOnClosed \/ closes[p] > 0)
    /\ IF p + 1 = Consumer
         THEN /\ Len(received) < MaxRecv
              /\ received' = Append(received, Offered(p))
              /\ pc' = [pc EXCEPT ![p] = IF p = 0 THEN "loop" ELSE "range"]
              /\ UNCHANGED val
         ELSE /\ pc' = [pc EXCEPT ![p] = IF p = 0 THEN "loop" ELSE "range",
                                  ![p + 1] = "select"]
              /\ val' = [val EXCEPT ![p + 1] = Apply(Stages[p + 1], Offered(p))]
              /\ UNCHANGED received
    /\ idx' = IF p = 0 THEN idx + 1 ELSE idx
    /\ waited' = IF p + 1 = Consumer THEN 0 ELSE waited
    /\ UNCHANGED <<srcKind, nums, nStages, done, heartbeat, pulse,
                   closes, heartbeatCloses, firstHb, sleepLeft, timeoutLen>>
    /\ UNCHANGED notPipe

\* for i := range intStream ends when the upstream channel is closed.
RangeClosed(p) ==
    /\ p \in 1..nStages
    /\ pc[p] = "range"
    /\ closes[p - 1] > 0
    /\ Return(p)
    /\ UNCHANGED <<srcKind, nums, nStages, done, val, idx, heartbeat, pulse,
                   heartbeatCloses, sendOnClosed, received, firstHb, timing>>
    /\ UNCHANGED notPipe

\* for v := range pipeline ends in the consumer.
ConsumerClosed ==
    /\ pc[Consumer] = "range"
    /\ closes[nStages] > 0
    /\ pc' = [pc EXCEPT ![Consumer] = "done"]
    /\ UNCHANGED <<srcKind, nums, nStages, done, val, idx, heartbeat, pulse,
                   closes, heartbeatCloses, sendOnClosed, received, firstHb, timing>>
    /\ UNCHANGED notPipe

\* The second deferred close of DoWork / DoWork1: close(heartbeat).
CloseHeartbeat ==
    /\ pc[0] = "closing"
    /\ heartbeatCloses' = heartbeatCloses + 1
    /\ pc' = [pc EXCEPT ![0] = "returned"]
    /\ UNCHANGED <<srcKind, nums, nStages, done, val, idx, heartbeat, pulse,
                   closes, sendOnClosed, received, firstHb, timing>>
    /\ UNCHANGED notPipe

\* DoWork1's ticker (time.Tick) puts a tick in its one-slot channel.
Tick ==
    /\ srcKind = "DoWork1"
    /\ pc[0] \in {"loop", "select"}
    /\ ~pulse
    /\ pulse' = TRUE
    /\ UNCHANGED <<srcKind, nums, nStages, done, pc, val, idx, heartbeat,
                   closes, heartbeatCloses, sendOnClosed, received, firstHb, timing>>
    /\ UNCHANGED notPipe

\* DoWork1: case <-pulse: select { case heartbeat <- struct{}{}: default: }
PulseHeartbeat ==
    /\ srcKind = "DoWork1"
    /\ pc[0] = "select"
    /\ pulse
    /\ pulse' = FALSE
    /\ TrySendHeartbeat
    /\ UNCHANGED <<srcKind, nums, nStages, done, pc, val, idx,
                   closes, heartbeatCloses, sendOnClosed, received, firstHb, timing>>
    /\ UNCHANGED notPipe

\* <-heartbeat: a listener takes a pulse off the heartbeat channel.  A
\* consumer that waits for the first heartbeat goes on to the results.
ReceiveHeartbeat ==
    /\ heartbeat > 0
    /\ heartbeat' = heartbeat - 1
    /\ firstHb' = IF firstHb # "none" THEN firstHb
                  ELSE IF heartbeatCloses > 0 THEN "latePulse" ELSE "pulse"
    /\ pc' = [pc EXCEPT ![Consumer] = IF @ = "waitHb" THEN "range" ELSE @]
    /\ UNCHANGED <<srcKind, nums, nStages, done, val, idx, pulse,
                   closes, heartbeatCloses, sendOnClosed, received, sleepLeft, timeoutLen>>
    /\ waited' = 0
    /\ UNCHANGED notPipe

\* <-heartbeat on the closed and empty heartbeat channel yields the zero
\* value at once.
ReceiveHeartbeatClosed ==
    /\ heartbeat = 0
    /\ heartbeatCloses > 0
    /\ firstHb = "none"
    /\ firstHb' = "zero"
    /\ pc' = [pc EXCEPT ![Consumer] = IF @ = "waitHb" THEN "range" ELSE @]
    /\ UNCHANGED <<srcKind, nums, nStages, done, val, idx, heartbeat, pulse,
                   closes, heartbeatCloses, sendOnClosed, received, sleepLeft, timeoutLen>>
    /\ waited' = 0
    /\ UNCHANGED notPipe

NextPipe ==
    \/ CloseDone
    \/ Sleep
    \/ SourceLoop
    \/ RepeatSpin
    \/ \E p \in 0..Len(Stages) : SelectDone(p)
    \/ \E p \in 0..Len(Stages) : Send(p)
    \/ \E p \in 1..Len(Stages) : RangeClosed(p)
    \/ ConsumerClosed
    \/ CloseHeartbeat
    \/ Tick
    \/ PulseHeartbeat
    \/ ReceiveHeartbeat
    \/ ReceiveHeartbeatClosed

\* The pipeline variables while another pattern is being run.
PipeIdle == PipeInit /\ srcKind = "generator" /\ nums = <<>> /\ nStages = 0

\* The Go scheduler runs every runnable goroutine, and a select picks among its
\* ready cases at random, so a case that is ready again and again is taken.
\* The consumer and the heartbeat listener are free to stop receiving.
PipeFairness ==
    /\ WF_vars(Sleep)
    /\ WF_vars(SourceLoop)
    /\ WF_vars(CloseHeartbeat)
    /\ \A p \in 0..Len(Stages) : SF_vars(SelectDone(p))
    /\ \A p \in 1..Len(Stages) : WF_vars(RangeClosed(p))
    /\ \A p \in 0..(Len(Stages) - 1) : WF_vars(p < nStages /\ Send(p))

AllStagesReturned ==
    /\ \A p \in 0..nStages : pc[p] = "returned" /\ closes[p] = 1
    /\ HasHeartbeat => heartbeatCloses = 1

\* =========================================================================
\* The tests of DoWork / DoWork1 under a clock.  Time is counted in seconds,
\* and a second passes only when no goroutine has a step it can take: the
\* stage and the test run normally, without scheduling delays.
\* =========================================================================
SleepSeconds == 2     \* time.Sleep(2 * time.Second)
BadTestTimeout == 1   \* time.After(1 * time.Second)
WatchTimeout == 2     \* const timeout = 2*time.Second; DoWork1 pulses every timeout/2

\* The tests with a consumer that starts in its select loop without waiting
\* for a heartbeat.
TestsWithoutHeartbeatWait ==
    { [name |-> "GeneratesAllNumbers", src |-> "DoWork", start |-> "range",
       timeout |-> BadTestTimeout],
      [name |-> "GeneratesAllNumbers1", src |-> "DoWork", start |-> "waitHb",
       timeout |-> 0],
      [name |-> "GeneratesAllNumbers2", src |-> "DoWork1", start |-> "range",
       timeout |-> WatchTimeout] }

\* TestDoWork_GeneratesAllNumbers: DoWork, select on results and a timeout.
\* TestDoWork_GeneratesAllNumbers1: DoWork, <-heartbeat, then range results.
\* TestDoWork_GeneratesAllNumbers2: DoWork1, <-heartbeat, then a select on
\* results, heartbeat and a fresh timeout.
Tests ==
    { [name |-> "GeneratesAllNumbers", src |-> "DoWork", start |-> "range",
       timeout |-> BadTestTimeout],
      [name |-> "GeneratesAllNumbers1", src |-> "DoWork", start |-> "waitHb",
       timeout |-> 0],
      [name |-> "GeneratesAllNumbers2", src |-> "DoWork1", start |-> "waitHb",
       timeout |-> WatchTimeout] }

WatchInit ==
    /\ PipeStart
    /\ \E t \in Tests :
          /\ srcKind = t.src
          /\ pc[Consumer] = t.start
          /\ timeoutLen = t.timeout
    /\ nStages = 0
    /\ sleepLeft = SleepSeconds
    /\ waited = 0

\* The test receives from the heartbeat channel: in its first <-heartbeat, or
\* in the heartbeat case of the select of TestDoWork_GeneratesAllNumbers2.
WatchReceiveHeartbeat ==
    /\ pc[Consumer] = "waitHb" \/ (pc[Consumer] = "range" /\ srcKind = "DoWork1")
    /\ ReceiveHeartbeat

WatchReceiveHeartbeatClosed ==
    /\ pc[Consumer] = "waitHb" \/ (pc[Consumer] = "range" /\ srcKind = "DoWork1")
    /\ ReceiveHeartbeatClosed

\* case <-time.After(timeout): t.Fatal("test timed out")
ObserverTimeout ==
    /\ pc[Consumer] = "range"
    /\ timeoutLen > 0
    /\ waited >= timeoutLen
    /\ pc' = [pc EXCEPT ![Consumer] = "timedOut"]
    /\ UNCHANGED <<srcKind, nums, nStages, done, val, idx, heartbeat, pulse,
                   closes, heartbeatCloses, sendOnClosed, received, firstHb, timing>>
    /\ UNCHANGED notPipe

\* The test function returns: defer close(done).
TestReturns ==
    /\ pc[Consumer] \in {"done", "timedOut"}
    /\ CloseDone

\* The steps that take no time.
InstantStep ==
    \/ Sleep
    \/ SourceLoop
    \/ SelectDone(0)
    \/ Send(0)
    \/ ConsumerClosed
    \/ CloseHeartbeat
    \/ PulseHeartbeat
    \/ WatchReceiveHeartbeat
    \/ WatchReceiveHeartbeatClosed
    \/ ObserverTimeout
    \/ TestReturns

\* One second passes: the startup delay gets shorter, DoWork1's ticker (once
\* it exists) ticks, and a consumer waiting in its select has waited longer.
TimePasses ==
    /\ ~ENABLED InstantStep
    /\ sleepLeft > 0 \/ pc[0] \in {"loop", "select"} \/ pc[Consumer] = "range"
    /\ sleepLeft' = IF sleepLeft > 0 THEN sleepLeft - 1 ELSE 0
    /\ pulse' = (pulse \/ (srcKind = "DoWork1" /\ pc[0] \in {"loop", "select"}))
    /\ waited' = IF pc[Consumer] = "range" /\ waited < timeoutLen
                    THEN waited + 1 ELSE waited
    /\ UNCHANGED <<srcKind, nums, nStages, done, pc, val, idx, heartbeat,
                   closes, heartbeatCloses, sendOnClosed, received, firstHb, timeoutLen>>
    /\ UNCHANGED notPipe

NextWatch ==
    \/ Sleep
    \/ SourceLoop
    \/ SelectDone(0)
    \/ Send(0)
    \/ ConsumerClosed
    \/ CloseHeartbeat
    \/ PulseHeartbeat
    \/ WatchReceiveHeartbeat
    \/ WatchReceiveHeartbeatClosed
    \/ ObserverTimeout
    \/ TestReturns
    \/ TimePasses

\* Every goroutine is scheduled and time goes on.
WatchFairness ==
    /\ WF_vars(InstantStep)
    /\ WF_vars(TimePasses)

\* =========================================================================
\* The heartbeat at the start of each unit of work: doWork(done) and the
\* consumer's for { select { case <-heartbeat: case <-results: } }.  doWork
\* is DoWork without the sleep, nums being the values it sends.
\* =========================================================================
LoopIdle == pulses = 0

\* doWork has made its channels and started its goroutine, which is at the
\* top of its for loop; the consumer is in its select.
WorkStartInit ==
    /\ srcKind = "DoWork"
    /\ nums \in SeqsUpTo(MaxLen)
    /\ nStages = 0
    /\ done = FALSE
    /\ pc = [p \in 0..(Len(Stages) + 1) |->
                IF p = 0 THEN "loop" ELSE IF p = 1 THEN "range" ELSE "none"]
    /\ val = [p \in 1..Len(Stages) |-> 0]
    /\ idx = 1
    /\ heartbeat = 0
    /\ pulse = FALSE
    /\ closes = [p \in 0..Len(Stages) |-> 0]
    /\ heartbeatCloses = 0
    /\ sendOnClosed = FALSE
    /\ received = <<>>
    /\ firstHb = "none"
    /\ sleepLeft = 0
    /\ waited = 0
    /\ timeoutLen = 0
    /\ pulses = 0

\* case _, ok := <-heartbeat with ok == true: fmt.Println("pulse")
LoopPulse ==
    /\ pc[Consumer] = "range"
    /\ heartbeat > 0
    /\ heartbeat' = heartbeat - 1
    /\ pulses' = pulses + 1
    /\ UNCHANGED <<srcKind, nums, nStages, done, pc, val, idx, pulse,
                   closes, heartbeatCloses, sendOnClosed, received, firstHb, timing>>
    /\ UNCHANGED notPipeNorLoop

\* case _, ok := <-heartbeat with ok == false: return
LoopHeartbeatClosed ==
    /\ pc[Consumer] = "range"
    /\ heartbeat = 0
    /\ heartbeatCloses > 0
    /\ pc' = [pc EXCEPT ![Consumer] = "done"]
    /\ UNCHANGED <<srcKind, nums, nStages, done, val, idx, heartbeat, pulse,
                   closes, heartbeatCloses, sendOnClosed, received, firstHb, timing>>
    /\ UNCHANGED notPipe

NextWorkStart ==
    \/ SourceLoop
    \/ SelectDone(0)
    \/ Send(0)
    \/ CloseHeartbeat
    \/ LoopPulse
    \/ LoopHeartbeatClosed
    \/ ConsumerClosed
    \/ CloseDone

WorkStartFairness ==
    /\ WF_vars(SourceLoop)
    /\ SF_vars(SelectDone(0))
    /\ WF_vars(Send(0))
    /\ WF_vars(CloseHeartbeat)
    /\ WF_vars(LoopPulse)
    /\ WF_vars(LoopHeartbeatClosed)
    /\ WF_vars(ConsumerClosed)

\* =========================================================================
\* The prime-finding pipeline
\* =========================================================================
NumPrimes == 2   \* take(done, ..., num): how many primes main asks for
MaxRand == 4     \* rand() returns a value in 0..MaxRand

PrimeStages == {"repeatFn", "toInt", "primeFinder", "take"}

PrimeInit ==
    /\ primeDone = FALSE
    /\ ppc = [repeatFn |-> "select", toInt |-> "recv", primeFinder |-> "select",
              take |-> "loop", main |-> "range"]
    /\ pval = [toInt |-> 0, primeFinder |-> 0, take |-> 0]
    /\ takeI = 0
    /\ primes = 0
    /\ pcloses = [s \in PrimeStages |-> 0]
    /\ crashed = FALSE

\* A stage returns and its deferred close(stream) runs.
PrimeReturn(s) ==
    /\ ppc' = [ppc EXCEPT ![s] = "returned"]
    /\ pcloses' = [pcloses EXCEPT ![s] = @ + 1]

\* repeatFn: case <-done: return
RepeatFnDone ==
    /\ ~crashed
    /\ ppc.repeatFn = "select"
    /\ primeDone
    /\ PrimeReturn("repeatFn")
    /\ UNCHANGED <<primeDone, pval, takeI, primes, crashed>>
    /\ UNCHANGED notPrime

\* repeatFn: case valueStream <- fn(), met by toInt's nested <-valueStream.
RepeatFnSend ==
    /\ ~crashed
    /\ ppc.repeatFn = "select"
    /\ ppc.toInt = "recv"
    /\ \E v \in 0..MaxRand : pval' = [pval EXCEPT !.toInt = v]
    /\ ppc' = [ppc EXCEPT !.toInt = "select"]
    /\ UNCHANGED <<primeDone, takeI, primes, pcloses, crashed>>
    /\ UNCHANGED notPrime

\* toInt evaluates (<-valueStream).(int) before its select looks at done.  On
\* a closed valueStream the receive yields nil, and nil.(int) panics: toInt's
\* deferred close(Stream) runs and the program ends.
ToIntRecvClosed ==
    /\ ~crashed
    /\ ppc.toInt = "recv"
    /\ pcloses.repeatFn > 0
    /\ ppc' = [ppc EXCEPT !.toInt = "panicked"]
    /\ pcloses' = [pcloses EXCEPT !.toInt = @ + 1]
    /\ crashed' = TRUE
    /\ UNCHANGED <<primeDone, pval, takeI, primes>>
    /\ UNCHANGED notPrime

\* toInt: case <-done: return
ToIntDone ==
    /\ ~crashed
    /\ ppc.toInt = "select"
    /\ primeDone
    /\ PrimeReturn("toInt")
    /\ UNCHANGED <<primeDone, pval, takeI, primes, crashed>>
    /\ UNCHANGED notPrime

\* primeFinder's test: flag stays 0 when no i in 2..x-1 divides x.
FlagIsZero(x) == \A i \in 2..(x - 1) : x % i # 0

\* What primeFinder does with the x it received: send it, or loop.
AfterReceive(x) == IF FlagIsZero(x) THEN "send" ELSE "select"

\* toInt: case Stream <- v, met by primeFinder's x := <-valueStream.
ToIntSend ==
    /\ ~crashed
    /\ ppc.toInt = "select"
    /\ ppc.primeFinder = "recv"
    /\ pval' = [pval EXCEPT !.primeFinder = pval.toInt]
    /\ ppc' = [ppc EXCEPT !.toInt = "recv", !.primeFinder = AfterReceive(pval.toInt)]
    /\ UNCHANGED <<primeDone, takeI, primes, pcloses, crashed>>
    /\ UNCHANGED notPrime

\* primeFinder: select { case <-done: return; default: ... }
PrimeFinderSelect ==
    /\ ~crashed
    /\ ppc.primeFinder = "select"
    /\ IF primeDone
         THEN PrimeReturn("primeFinder")
         ELSE ppc' = [ppc EXCEPT !.primeFinder = "recv"] /\ UNCHANGED pcloses
    /\ UNCHANGED <<primeDone, pval, takeI, primes, crashed>>
    /\ UNCHANGED notPrime

\* primeFinder: x := <-valueStream on a closed channel yields 0.
PrimeFinderRecvClosed ==
    /\ ~crashed
    /\ ppc.primeFinder = "recv"
    /\ pcloses.toInt > 0
    /\ pval' = [pval EXCEPT !.primeFinder = 0]
    /\ ppc' = [ppc EXCEPT !.primeFinder = AfterReceive(0)]
    /\ UNCHANGED <<primeDone, takeI, primes, pcloses, crashed>>
    /\ UNCHANGED notPrime

\* primeFinder: Stream <- x (no select around it), met by take's nested
\* <-valueStream.
PrimeFinderSend ==
    /\ ~crashed
    /\ ppc.primeFinder = "send"
    /\ ppc.take = "recv"
    /\ pval' = [pval EXCEPT !.take = pval.primeFinder]
    /\ ppc' = [ppc EXCEPT !.primeFinder = "select", !.take = "select"]
    /\ UNCHANGED <<primeDone, takeI, primes, pcloses, crashed>>
    /\ UNCHANGED notPrime

\* take: for i := 0; i < num; i++
TakeLoop ==
    /\ ~crashed
    /\ ppc.take = "loop"
    /\ IF takeI < NumPrimes
         THEN ppc' = [ppc EXCEPT !.take = "recv"] /\ UNCHANGED pcloses
         ELSE PrimeReturn("take")
    /\ UNCHANGED <<primeDone, pval, takeI, primes, crashed>>
    /\ UNCHANGED notPrime

\* take: the nested <-valueStream on a closed channel yields nil.
TakeRecvClosed ==
    /\ ~crashed
    /\ ppc.take = "recv"
    /\ pcloses.primeFinder > 0
    /\ pval' = [pval EXCEPT !.take = 0]
    /\ ppc' = [ppc EXCEPT !.take = "select"]
    /\ UNCHANGED <<primeDone, takeI, primes, pcloses, crashed>>
    /\ UNCHANGED notPrime

\* take: case <-done: return
TakeDone ==
    /\ ~crashed
    /\ ppc.take = "select"
    /\ primeDone
    /\ PrimeReturn("take")
    /\ UNCHANGED <<primeDone, pval, takeI, primes, crashed>>
    /\ UNCHANGED notPrime

\* take: case takeStream <- v, met by main's range.
TakeSend ==
    /\ ~crashed
    /\ ppc.take = "select"
    /\ ppc.main = "range"
    /\ primes' = primes + 1
    /\ takeI' = takeI + 1
    /\ ppc' = [ppc EXCEPT !.take = "loop"]
    /\ UNCHANGED <<primeDone, pval, pcloses, crashed>>
    /\ UNCHANGED notPrime

\* main: for prime := range take(...) ends when takeStream is closed.
MainRangeClosed ==
    /\ ~crashed
    /\ ppc.main = "range"
    /\ pcloses.take > 0
    /\ ppc' = [ppc EXCEPT !.main = "returned"]
    /\ UNCHANGED <<primeDone, pval, takeI, primes, pcloses, crashed>>
    /\ UNCHANGED notPrime

\* close(done): main's deferred close, or a cancellation by the owner of done
\* at any earlier time.
PrimeCloseDone ==
    /\ ~crashed
    /\ ~primeDone
    /\ primeDone' = TRUE
    /\ UNCHANGED <<ppc, pval, takeI, primes, pcloses, crashed>>
    /\ UNCHANGED notPrime

NextPrime ==
    \/ RepeatFnDone
    \/ RepeatFnSend
    \/ ToIntRecvClosed
    \/ ToIntDone
    \/ ToIntSend
    \/ PrimeFinderSelect
    \/ PrimeFinderRecvClosed
    \/ PrimeFinderSend
    \/ TakeLoop
    \/ TakeRecvClosed
    \/ TakeDone
    \/ TakeSend
    \/ MainRangeClosed
    \/ PrimeCloseDone

\* Every goroutine of the pipeline is scheduled; the done case of a select
\* that is ready again and again is taken.
PrimeFairness ==
    /\ SF_vars(RepeatFnDone) /\ SF_vars(ToIntDone) /\ SF_vars(TakeDone)
    /\ WF_vars(RepeatFnSend) /\ WF_vars(ToIntSend) /\ WF_vars(PrimeFinderSend)
    /\ WF_vars(TakeSend)
    /\ WF_vars(ToIntRecvClosed) /\ WF_vars(PrimeFinderRecvClosed)
    /\ WF_vars(TakeRecvClosed) /\ WF_vars(MainRangeClosed)
    /\ WF_vars(PrimeFinderSelect) /\ WF_vars(TakeLoop)

PrimeStagesTerminated ==
    crashed \/ \A s \in PrimeStages : ppc[s] = "returned"

\* =========================================================================
\* Fan-in
\* =========================================================================
MaxInputs == 2   \* most channels handed to fanIn
MaxItems == 2    \* most items one input channel carries

\* A producer is a stage that sends its items and closes its channel
\* ("closes"), one that also returns when done is closed ("stage", like
\* generator), or one that sends its items and then leaves the channel open
\* and silent ("silent", like a channel nobody writes to any more).
InKinds == {"closes", "stage", "silent"}

Inputs == 1..nInputs

\* The i-th item of input channel j.
Item(j, i) == <<j, i>>

AllItems == {Item(j, i) : j \in 1..MaxInputs, i \in 1..MaxItems}

FanInit ==
    /\ fanDone = FALSE
    /\ nInputs \in 1..MaxInputs
    /\ inKind \in [1..MaxInputs -> InKinds]
    /\ inCount \in [1..MaxInputs -> 0..MaxItems]
    /\ \A j \in 1..MaxInputs : j > nInputs => inKind[j] = "closes" /\ inCount[j] = 0
    /\ inSent = [j \in 1..MaxInputs |-> 0]
    /\ inCloses = [j \in 1..MaxInputs |-> 0]
    /\ mpc = [j \in 1..MaxInputs |-> IF j <= nInputs THEN "range" ELSE "none"]
    /\ mval = [j \in 1..MaxInputs |-> Item(j, 0)]
    /\ wg = nInputs                 \* wg.Add(len(channels))
    /\ closerPc = "wait"
    /\ mergedCloses = 0
    /\ fanSendOnClosed = FALSE
    /\ merged = <<>>
    /\ fanConsumer = "range"
    /\ readOrder = <<>>

FanIdle == FanInit /\ nInputs = 1 /\ inKind[1] = "closes" /\ inCount[1] = 0

FanCloseDone ==
    /\ ~fanDone
    /\ fanDone' = TRUE
    /\ UNCHANGED <<nInputs, inKind, inCount, inSent, inCloses, mpc, mval, wg,
                   closerPc, mergedCloses, fanSendOnClosed, merged, fanConsumer,
                   readOrder>>
    /\ UNCHANGED notFan

\* The producer behind channels[j] sends its next item; multiplex j receives
\* it in "for i := range c".
ProducerSend(j) ==
    /\ j \in Inputs
    /\ inCloses[j] = 0
    /\ inSent[j] < inCount[j]
    /\ mpc[j] = "range"
    /\ inSent' = [inSent EXCEPT ![j] = @ + 1]
    /\ mval' = [mval EXCEPT ![j] = Item(j, inSent[j] + 1)]
    /\ mpc' = [mpc EXCEPT ![j] = "select"]
    /\ readOrder' = Append(readOrder, Item(j, inSent[j] + 1))
    /\ UNCHANGED <<fanDone, nInputs, inKind, inCount, inCloses, wg,
                   closerPc, mergedCloses, fanSendOnClosed, merged, fanConsumer>>
    /\ UNCHANGED notFan

\* The producer has sent all its items and closes channels[j].
ProducerClose(j) ==
    /\ j \in Inputs
    /\ inKind[j] \in {"closes", "stage"}
    /\ inCloses[j] = 0
    /\ inSent[j] = inCount[j]
    /\ inCloses' = [inCloses EXCEPT ![j] = @ + 1]
    /\ UNCHANGED <<fanDone, nInputs, inKind, inCount, inSent, mpc, mval, wg,
                   closerPc, mergedCloses, fanSendOnClosed, merged, fanConsumer,
                   readOrder>>
    /\ UNCHANGED notFan

\* A producer that selects on done returns and closes channels[j].
ProducerDone(j) ==
    /\ j \in Inputs
    /\ inKind[j] = "stage"
    /\ fanDone
    /\ inCloses[j] = 0
    /\ inSent[j] < inCount[j]
    /\ inCloses' = [inCloses EXCEPT ![j] = @ + 1]
    /\ UNCHANGED <<fanDone, nInputs, inKind, inCount, inSent, mpc, mval, wg,
                   closerPc, mergedCloses, fanSendOnClosed, merged, fanConsumer,
                   readOrder>>
    /\ UNCHANGED notFan

\* multiplex returns: defer wg.Done()
MultiplexReturn(j) ==
    /\ mpc' = [mpc EXCEPT ![j] = "returned"]
    /\ wg' = wg - 1

\* multiplex: for i := range c ends when c is closed.
MultiplexRangeClosed(j) ==
    /\ j \in Inputs
    /\ mpc[j] = "range"
    /\ inCloses[j] > 0
    /\ MultiplexReturn(j)
    /\ UNCHANGED <<fanDone, nInputs, inKind, inCount, inSent, inCloses, mval,
                   closerPc, mergedCloses, fanSendOnClosed, merged, fanConsumer,
                   readOrder>>
    /\ UNCHANGED notFan

\* multiplex: case <-done: return
MultiplexDone(j) ==
    /\ j \in Inputs
    /\ mpc[j] = "select"
    /\ fanDone
    /\ MultiplexReturn(j)
    /\ UNCHANGED <<fanDone, nInputs, inKind, inCount, inSent, inCloses, mval,
                   closerPc, mergedCloses, fanSendOnClosed, merged, fanConsumer,
                   readOrder>>
    /\ UNCHANGED notFan

\* A multiplex written with "if" for "for": it forwards one item and returns.
MultiplexSendOnce(j) ==
    /\ j \in Inputs
    /\ mpc[j] = "select"
    /\ fanConsumer = "range"
    /\ fanSendOnClosed' = (fanSendOnClosed \/ mergedCloses > 0)
    /\ merged' = Append(merged, mval[j])
    /\ MultiplexReturn(j)
    /\ UNCHANGED <<fanDone, nInputs, inKind, inCount, inSent, inCloses, mval,
                   closerPc, mergedCloses, fanConsumer,
                   readOrder>>
    /\ UNCHANGED notFan

\* A multiplex whose select has a default case: with no receiver at hand the
\* item is dropped and the next one is read.
MultiplexSendOrSkip(j) ==
    /\ j \in Inputs
    /\ mpc[j] = "select"
    /\ \/ /\ fanConsumer = "range"
          /\ fanSendOnClosed' = (fanSendOnClosed \/ mergedCloses > 0)
          /\ merged' = Append(merged, mval[j])
       \/ UNCHANGED <<fanSendOnClosed, merged>>
    /\ mpc' = [mpc EXCEPT ![j] = "range"]
    /\ UNCHANGED <<fanDone, nInputs, inKind, inCount, inSent, inCloses, mval, wg,
                   closerPc, mergedCloses, fanConsumer, readOrder>>
    /\ UNCHANGED notFan

\* multiplex: case multiplexedStream <- i, met by the consumer's range.
MultiplexSend(j) ==
    /\ j \in Inputs
    /\ mpc[j] = "select"
    /\ fanConsumer = "range"
    /\ fanSendOnClosed' = (fanSendOnClosed \/ mergedCloses > 0)
    /\ merged' = Append(merged, mval[j])
    /\ mpc' = [mpc EXCEPT ![j] = "range"]
    /\ UNCHANGED <<fanDone, nInputs, inKind, inCount, inSent, inCloses, mval, wg,
                   closerPc, mergedCloses, fanConsumer,
                   readOrder>>
    /\ UNCHANGED notFan

\* A closer that stops waiting while one multiplex is still running.
WaitReturnsEarly == wg <= 1

\* wg.Wait() returns when the counter is zero.
WaitReturns == wg = 0

\* go func() { wg.Wait(); close(multiplexedStream) }()
CloseMerged ==
    /\ closerPc = "wait"
    /\ WaitReturns
    /\ mergedCloses' = mergedCloses + 1
    /\ closerPc' = "returned"
    /\ UNCHANGED <<fanDone, nInputs, inKind, inCount, inSent, inCloses, mpc, mval,
                   wg, fanSendOnClosed, merged, fanConsumer,
                   readOrder>>
    /\ UNCHANGED notFan

\* The consumer's range over the merged channel ends.
FanConsumerClosed ==
    /\ fanConsumer = "range"
    /\ mergedCloses > 0
    /\ fanConsumer' = "done"
    /\ UNCHANGED <<fanDone, nInputs, inKind, inCount, inSent, inCloses, mpc, mval,
                   wg, closerPc, mergedCloses, fanSendOnClosed, merged, readOrder>>
    /\ UNCHANGED notFan

NextFan ==
    \/ FanCloseDone
    \/ \E j \in 1..MaxInputs : ProducerSend(j)
    \/ \E j \in 1..MaxInputs : ProducerClose(j)
    \/ \E j \in 1..MaxInputs : ProducerDone(j)
    \/ \E j \in 1..MaxInputs : MultiplexRangeClosed(j)
    \/ \E j \in 1..MaxInputs : MultiplexDone(j)
    \/ \E j \in 1..MaxInputs : MultiplexSend(j)
    \/ CloseMerged
    \/ FanConsumerClosed

\* Every goroutine is scheduled, the producers included; the done case of a
\* select that is ready again and again is taken.  The consumer is free to
\* stop receiving.
FanFairness ==
    /\ \A j \in 1..MaxInputs :
          /\ WF_vars(ProducerSend(j))
          /\ WF_vars(ProducerClose(j))
          /\ WF_vars(ProducerDone(j))
          /\ WF_vars(MultiplexRangeClosed(j))
          /\ SF_vars(MultiplexDone(j))
    /\ WF_vars(CloseMerged)

AllMultiplexReturned == \A j \in Inputs : mpc[j] = "returned"

\* The items the producers were given.
GivenItems == {it \in AllItems : it[1] \in Inputs /\ it[2] <= inCount[it[1]]}

Range(seq) == {seq[i] : i \in 1..Len(seq)}

NoDuplicates(seq) == \A a, b \in 1..Len(seq) : seq[a] = seq[b] => a = b

\* =========================================================================
\* The or-channel
\* =========================================================================
MaxOr == 6       \* most channels handed to or

Nil == 0                       \* the nil channel or() returns
OrDoneId(level) == MaxOr + level   \* the orDone made at depth level; inputs are 1..MaxOr

\* A recursion that passes channels[4:] on and so forgets one channel.
RestSkipping(channels) == SubSeq(channels, 5, Len(channels))

\* channels[3:]
Rest(channels) == SubSeq(channels, 4, Len(channels))

\* An or without its base cases: it makes an orDone whatever it is given.
OrResultAlwaysOrDone(channels, level) == OrDoneId(level)

\* What or(channels...) returns when called at depth level.
OrResult(channels, level) ==
    IF Len(channels) = 0 THEN Nil
    ELSE IF Len(channels) = 1 THEN channels[1]
    ELSE OrDoneId(level)

\* A recursive call that is not told of its caller's orDone.
PassedDownWithoutOrDone(channels, level) == Rest(channels)

\* append(channels[3:], orDone): what the goroutine of depth level hands to the
\* recursive call.
PassedDown(channels, level) == Append(Rest(channels), OrDoneId(level))

\* The goroutines or(channels...) starts, outermost first: the channels each
\* one selects on.  The call at depth level+1 is made by the goroutine of
\* depth level with append(channels[3:], orDone).
RECURSIVE OrTree(_, _)
OrTree(channels, level) ==
    IF Len(channels) < 2 THEN <<>>
    ELSE IF Len(channels) = 2 THEN <<{channels[1], channels[2]}>>
    ELSE LET sub == PassedDown(channels, level)
         IN  <<{channels[1], channels[2], channels[3], OrResult(sub, level + 1)}>>
             \o OrTree(sub, level + 1)

OrInputs == [i \in 1..orN |-> i]
Tree == OrTree(OrInputs, 1)
OrOut == OrResult(OrInputs, 1)

IsClosed(ch) ==
    IF ch = Nil THEN FALSE
    ELSE IF ch <= MaxOr THEN sigClosed[ch]
    ELSE orCloses[ch - MaxOr] > 0

\* A select given a default case: it never waits.
SelectWithDefault(watch) == TRUE

\* select { case <-a: case <-b: ... } can proceed once one channel is closed.
SelectFires(watch) == \E ch \in watch : IsClosed(ch)

OrInit ==
    /\ orN \in 0..MaxOr
    /\ sigClosed = [i \in 1..MaxOr |-> FALSE]
    /\ orPc = [l \in 1..MaxOr |-> IF l = 1 /\ orN >= 2 THEN "created" ELSE "none"]
    /\ orCloses = [l \in 1..MaxOr |-> 0]
    /\ or2Pc = IF orN >= 2 THEN "select" ELSE "none"
    /\ or2Closes = 0

OrIdle == OrInit /\ orN = 0

\* sig: the goroutine of input i wakes from time.Sleep(after) and its deferred
\* close(c) runs.
SigClose(i) ==
    /\ i \in 1..orN
    /\ ~sigClosed[i]
    /\ sigClosed' = [sigClosed EXCEPT ![i] = TRUE]
    /\ UNCHANGED <<orN, orPc, orCloses, or2Pc, or2Closes>>
    /\ UNCHANGED notOr

\* The goroutine of depth l reaches its select and evaluates the case
\* expressions: with more than two channels that is the recursive call of or,
\* which starts the goroutine of depth l+1 when it is given two or more.
OrEnterSelect(l) ==
    /\ l \in 1..Len(Tree)
    /\ orPc[l] = "created"
    /\ orPc' = [k \in 1..MaxOr |->
                  IF k = l THEN "select"
                  ELSE IF k = l + 1 /\ k <= Len(Tree) THEN "created"
                  ELSE orPc[k]]
    /\ UNCHANGED <<orN, sigClosed, orCloses, or2Pc, or2Closes>>
    /\ UNCHANGED notOr

\* One case of the select fires; the goroutine returns: defer close(orDone).
OrFire(l) ==
    /\ l \in 1..Len(Tree)
    /\ orPc[l] = "select"
    /\ SelectFires(Tree[l])
    /\ orPc' = [orPc EXCEPT ![l] = "returned"]
    /\ orCloses' = [orCloses EXCEPT ![l] = @ + 1]
    /\ UNCHANGED <<orN, sigClosed, or2Pc, or2Closes>>
    /\ UNCHANGED notOr

\* The two-channel or(done, done2), here on inputs 1 and 2:
\* select { case <-done: close(d); case <-done2: close(d) }
Or2Fire ==
    /\ or2Pc = "select"
    /\ SelectFires({1, 2})
    /\ or2Pc' = "returned"
    /\ or2Closes' = or2Closes + 1
    /\ UNCHANGED <<orN, sigClosed, orPc, orCloses>>
    /\ UNCHANGED notOr

NextOr ==
    \/ \E i \in 1..MaxOr : SigClose(i)
    \/ \E l \in 1..MaxOr : OrEnterSelect(l)
    \/ \E l \in 1..MaxOr : OrFire(l)
    \/ Or2Fire

\* Every goroutine or starts is scheduled; when an input closes is up to its
\* owner.
OrFairness ==
    /\ \A l \in 1..MaxOr : WF_vars(OrEnterSelect(l)) /\ WF_vars(OrFire(l))
    /\ WF_vars(Or2Fire)

\* =========================================================================
\* The steward
\* =========================================================================
MaxTimeouts == 2   \* timeoutSignals that fire in a run
MaxPulses == 1     \* pulses a faulty ward sends before it stops

Wards == 1..(MaxTimeouts + 1)

\* What startGoroutine starts: "nil" is the irresponsible doWork (nil
\* heartbeat, no pulse), "faulty" the worker that pulses and then stops without
\* closing anything, "pulsing" the worker that pulses until its done fires and
\* closes its heartbeat when it returns.
WardKinds == {"nil", "faulty", "pulsing"}

StewardInitOf(kinds) ==
    /\ stewardDone = FALSE
    /\ wardKind \in kinds
    /\ listener \in {"none", "ranging"}
    /\ pulseDropped = FALSE
    /\ stewardPc = "start"
    /\ started = 0
    /\ wardDoneClosed = [w \in Wards |-> FALSE]
    /\ wardOrPc = [w \in Wards |-> "none"]
    /\ wardOrCloses = [w \in Wards |-> 0]
    /\ wardPc = [w \in Wards |-> "none"]
    /\ pulsesLeft = 0
    /\ timeoutSignal = "none"
    /\ stewardTick = FALSE
    /\ elapsed = 0
    /\ discarded = 0
    /\ stewardHbCloses = 0

StewardInit == StewardInitOf(WardKinds)

StewardIdle == StewardInit /\ wardKind = "nil" /\ listener = "none"

\* startWard: wardDone = make(chan interface{});
\* wardHeartbeat = startGoroutine(or(wardDone, done), timeout/2).
\* or starts its goroutine, startGoroutine starts the ward's, and
\* wardHeartbeat now is the new ward's heartbeat.
StartWard ==
    /\ started' = started + 1
    /\ wardOrPc' = [wardOrPc EXCEPT ![started + 1] = "select"]
    /\ wardPc' = [wardPc EXCEPT ![started + 1] = "running"]
    /\ pulsesLeft' = IF wardKind = "faulty" THEN MaxPulses ELSE 0

\* The steward goroutine starts: startWard(); pulse := time.Tick(pulseInterval)
StewardStart ==
    /\ stewardPc = "start"
    /\ StartWard
    /\ stewardPc' = "monitor"
    /\ UNCHANGED <<stewardDone, wardKind, wardDoneClosed, wardOrCloses, timeoutSignal,
                   stewardTick, elapsed, discarded, stewardHbCloses,
                   listener, pulseDropped>>
    /\ UNCHANGED notSteward

\* monitorLoop: timeoutSignal := time.After(timeout)
StewardMonitor ==
    /\ stewardPc = "monitor"
    /\ timeoutSignal' = "pending"
    /\ stewardPc' = "select"
    /\ UNCHANGED <<stewardDone, wardKind, started, wardDoneClosed, wardOrPc, wardOrCloses,
                   wardPc, pulsesLeft, stewardTick, elapsed, discarded, stewardHbCloses,
                   listener, pulseDropped>>
    /\ UNCHANGED notSteward

\* The timeout of the timeoutSignal the steward is selecting on elapses.
TimeoutElapses ==
    /\ stewardPc = "select"
    /\ timeoutSignal = "pending"
    /\ elapsed < MaxTimeouts
    /\ timeoutSignal' = "fired"
    /\ elapsed' = elapsed + 1
    /\ UNCHANGED <<stewardDone, wardKind, stewardPc, started, wardDoneClosed, wardOrPc,
                   wardOrCloses, wardPc, pulsesLeft, stewardTick, discarded, stewardHbCloses,
                   listener, pulseDropped>>
    /\ UNCHANGED notSteward

\* The steward's ticker (time.Tick(pulseInterval)) ticks.
StewardTicker ==
    /\ stewardPc \in {"monitor", "select", "restart"}
    /\ ~stewardTick
    /\ stewardTick' = TRUE
    /\ UNCHANGED <<stewardDone, wardKind, stewardPc, started, wardDoneClosed, wardOrPc,
                   wardOrCloses, wardPc, pulsesLeft, timeoutSignal, elapsed, discarded,
                   stewardHbCloses,
                   listener, pulseDropped>>
    /\ UNCHANGED notSteward

\* case <-pulse with a blocking send: heartbeat <- struct{}{} waits for a
\* receiver, and with none the steward stays in the send.
StewardPulseBlocking ==
    /\ stewardPc = "select"
    /\ stewardTick
    /\ stewardTick' = FALSE
    /\ stewardPc' = IF listener = "ranging" THEN "select" ELSE "sending"
    /\ UNCHANGED <<stewardDone, wardKind, started, wardDoneClosed, wardOrPc,
                   wardOrCloses, wardPc, pulsesLeft, timeoutSignal, elapsed, discarded,
                   stewardHbCloses, listener, pulseDropped>>
    /\ UNCHANGED notSteward

\* case <-pulse: select { case heartbeat <- struct{}{}: default: }
\* The send goes through if the listener is waiting in its receive and is
\* dropped otherwise; the steward stays in its inner loop with the same
\* timeoutSignal.
StewardPulse ==
    /\ stewardPc = "select"
    /\ stewardTick
    /\ stewardTick' = FALSE
    /\ \E delivered \in {d \in BOOLEAN : d => listener = "ranging"} :
          pulseDropped' = (pulseDropped \/ ~delivered)
    /\ UNCHANGED <<stewardDone, wardKind, stewardPc, started, wardDoneClosed, wardOrPc,
                   wardOrCloses, wardPc, pulsesLeft, timeoutSignal, elapsed, discarded,
                   stewardHbCloses, listener>>
    /\ UNCHANGED notSteward

\* A receive from wardHeartbeat can proceed: the current ward sends a pulse,
\* or it has returned and its deferred close(heartbeat) has run.  A nil
\* wardHeartbeat never can.  A "closing" ward sends no pulse and closes its
\* heartbeat when it returns of its own accord.
\* A closed heartbeat taken for a channel nothing comes from.
WardHeartbeatOpenOnly ==
    \/ wardKind = "faulty" /\ wardPc[started] = "running" /\ pulsesLeft > 0
    \/ wardKind = "pulsing"

WardHeartbeatReady ==
    \/ wardKind = "faulty" /\ wardPc[started] = "running" /\ pulsesLeft > 0
    \/ wardKind = "pulsing"
    \/ wardKind = "closing" /\ wardPc[started] = "returned"

\* case <-wardHeartbeat: continue monitorLoop.  The timeoutSignal of this
\* round is left behind, fired or not.
StewardWardPulse ==
    /\ stewardPc = "select"
    /\ WardHeartbeatReady
    /\ pulsesLeft' = IF pulsesLeft > 0 THEN pulsesLeft - 1 ELSE 0
    /\ discarded' = IF timeoutSignal = "fired" THEN discarded + 1 ELSE discarded
    /\ timeoutSignal' = "none"
    /\ stewardPc' = "monitor"
    /\ UNCHANGED <<stewardDone, wardKind, started, wardDoneClosed, wardOrPc, wardOrCloses,
                   wardPc, stewardTick, elapsed, stewardHbCloses,
                   listener, pulseDropped>>
    /\ UNCHANGED notSteward

\* A timeout branch that leaves wardDone open.
StewardTimeoutKeepsWardDone ==
    /\ stewardPc = "select"
    /\ timeoutSignal = "fired"
    /\ timeoutSignal' = "none"
    /\ stewardPc' = "restart"
    /\ UNCHANGED <<stewardDone, wardKind, started, wardDoneClosed, wardOrPc, wardOrCloses,
                   wardPc, pulsesLeft, stewardTick, elapsed, discarded, stewardHbCloses,
                   listener, pulseDropped>>
    /\ UNCHANGED notSteward

\* case <-timeoutSignal: log.Println(...); close(wardDone)
StewardTimeout ==
    /\ stewardPc = "select"
    /\ timeoutSignal = "fired"
    /\ wardDoneClosed' = [wardDoneClosed EXCEPT ![started] = TRUE]
    /\ timeoutSignal' = "none"
    /\ stewardPc' = "restart"
    /\ UNCHANGED <<stewardDone, wardKind, started, wardOrPc, wardOrCloses, wardPc,
                   pulsesLeft, stewardTick, elapsed, discarded, stewardHbCloses,
                   listener, pulseDropped>>
    /\ UNCHANGED notSteward

\* A restart that starts no ward.
StewardRestartStartsNothing ==
    /\ stewardPc = "restart"
    /\ stewardPc' = "monitor"
    /\ UNCHANGED <<stewardDone, wardKind, started, wardDoneClosed, wardOrPc, wardOrCloses,
                   wardPc, pulsesLeft, timeoutSignal, stewardTick, elapsed, discarded,
                   stewardHbCloses,
                   listener, pulseDropped>>
    /\ UNCHANGED notSteward

\* the timeout branch goes on: startWard(); continue monitorLoop
StewardRestart ==
    /\ stewardPc = "restart"
    /\ StartWard
    /\ stewardPc' = "monitor"
    /\ UNCHANGED <<stewardDone, wardKind, wardDoneClosed, wardOrCloses, timeoutSignal,
                   stewardTick, elapsed, discarded, stewardHbCloses,
                   listener, pulseDropped>>
    /\ UNCHANGED notSteward

\* A return that leaves the heartbeat open.
StewardDoneKeepsHeartbeat ==
    /\ stewardPc = "select"
    /\ stewardDone
    /\ stewardPc' = "returned"
    /\ UNCHANGED stewardVarsButPc
    /\ UNCHANGED notSteward

\* case <-done: return, and the deferred close(heartbeat)
StewardDone ==
    /\ stewardPc = "select"
    /\ stewardDone
    /\ stewardPc' = "returned"
    /\ stewardHbCloses' = stewardHbCloses + 1
    /\ UNCHANGED <<stewardDone, wardKind, started, wardDoneClosed, wardOrPc, wardOrCloses,
                   wardPc, pulsesLeft, timeoutSignal, stewardTick, elapsed, discarded,
                   listener, pulseDropped>>
    /\ UNCHANGED notSteward

\* time.AfterFunc(9*time.Second, func() { close(done) })
StewardCloseDone ==
    /\ ~stewardDone
    /\ stewardDone' = TRUE
    /\ UNCHANGED <<wardKind, stewardPc, started, wardDoneClosed, wardOrPc, wardOrCloses,
                   wardPc, pulsesLeft, timeoutSignal, stewardTick, elapsed, discarded,
                   stewardHbCloses,
                   listener, pulseDropped>>
    /\ UNCHANGED notSteward

\* A ward handed wardDone alone for or(wardDone, done).
WardOrWatchesWardDone(w) == wardDoneClosed[w]

\* The select of or(wardDone, done) can proceed: one of the two is closed.
WardOrReady(w) == wardDoneClosed[w] \/ stewardDone

\* or(wardDone, done): select { case <-done: close(d); case <-done2: close(d) }
WardOrFire(w) ==
    /\ w \in Wards
    /\ wardOrPc[w] = "select"
    /\ WardOrReady(w)
    /\ wardOrPc' = [wardOrPc EXCEPT ![w] = "returned"]
    /\ wardOrCloses' = [wardOrCloses EXCEPT ![w] = @ + 1]
    /\ UNCHANGED <<stewardDone, wardKind, stewardPc, started, wardDoneClosed, wardPc,
                   pulsesLeft, timeoutSignal, stewardTick, elapsed, discarded,
                   stewardHbCloses,
                   listener, pulseDropped>>
    /\ UNCHANGED notSteward

\* The ward: <-done; log.Println("ward: I am halting.")
WardHalt(w) ==
    /\ w \in Wards
    /\ wardPc[w] = "running"
    /\ wardOrCloses[w] > 0
    /\ wardPc' = [wardPc EXCEPT ![w] = "halted"]
    /\ UNCHANGED <<stewardDone, wardKind, stewardPc, started, wardDoneClosed, wardOrPc,
                   wardOrCloses, pulsesLeft, timeoutSignal, stewardTick, elapsed,
                   discarded, stewardHbCloses,
                   listener, pulseDropped>>
    /\ UNCHANGED notSteward

\* for range doWorkWithSteward(done, 4*time.Second) {}: the range ends when
\* the steward's heartbeat is closed.
ListenerEnds ==
    /\ listener = "ranging"
    /\ stewardHbCloses > 0
    /\ listener' = "ended"
    /\ UNCHANGED <<stewardDone, wardKind, stewardPc, started, wardDoneClosed, wardOrPc,
                   wardOrCloses, wardPc, pulsesLeft, timeoutSignal, stewardTick, elapsed,
                   discarded, stewardHbCloses, pulseDropped>>
    /\ UNCHANGED notSteward

NextSteward ==
    \/ StewardStart
    \/ StewardMonitor
    \/ TimeoutElapses
    \/ StewardTicker
    \/ StewardPulse
    \/ StewardWardPulse
    \/ StewardTimeout
    \/ StewardRestart
    \/ StewardDone
    \/ StewardCloseDone
    \/ \E w \in Wards : WardOrFire(w)
    \/ \E w \in Wards : WardHalt(w)
    \/ ListenerEnds

\* The steward, the or goroutines and the wards are scheduled, and a case of
\* the steward's select that is ready again and again is taken.  When a
\* timeout elapses, a ward pulses or done is closed is up to the clock, the
\* ward and the owner of done.
StewardFairness ==
    /\ WF_vars(StewardStart)
    /\ WF_vars(StewardMonitor)
    /\ SF_vars(StewardTimeout)
    /\ WF_vars(StewardRestart)
    /\ SF_vars(StewardDone)
    /\ \A w \in Wards : WF_vars(WardOrFire(w)) /\ WF_vars(WardHalt(w))
    /\ WF_vars(ListenerEnds)

\* 1 while a fired timeoutSignal waits in the steward's select or the steward
\* is inside the timeout branch, else 0.
PendingTimeout == IF timeoutSignal = "fired" \/ stewardPc = "restart" THEN 1 ELSE 0

\* The ward returns of its own accord: defer close(heartbeat)
WardFinishes(w) ==
    /\ w \in Wards
    /\ wardKind = "closing"
    /\ wardPc[w] = "running"
    /\ wardPc' = [wardPc EXCEPT ![w] = "returned"]
    /\ UNCHANGED <<stewardDone, wardKind, stewardPc, started, wardDoneClosed, wardOrPc,
                   wardOrCloses, pulsesLeft, timeoutSignal, stewardTick, elapsed,
                   discarded, stewardHbCloses,
                   listener, pulseDropped>>
    /\ UNCHANGED notSteward

\* The steward is fast against its timeout.  time.After(timeout) of a round
\* does not elapse while a receive from wardHeartbeat is ready, and the
\* steward takes a timeoutSignal that fired, and finishes its timeout branch,
\* before the ward moves.
TimeoutInTime == TimeoutElapses /\ ~WardHeartbeatReady
WardFinishesInTime(w) == WardFinishes(w) /\ PendingTimeout = 0

ClosingInit == StewardInitOf({"nil", "closing"})

ClosedWard == wardKind = "closing" /\ started > 0 /\ wardPc[started] = "returned"

NextInTime ==
    \/ StewardStart
    \/ StewardMonitor
    \/ TimeoutInTime
    \/ StewardTicker
    \/ StewardPulse
    \/ StewardWardPulse
    \/ StewardTimeout
    \/ StewardRestart
    \/ StewardDone
    \/ StewardCloseDone
    \/ \E w \in Wards : WardOrFire(w)
    \/ \E w \in Wards : WardHalt(w)
    \/ \E w \in Wards : WardFinishesInTime(w)
    \/ ListenerEnds

\* =========================================================================
\* orDone
\* =========================================================================
OrDoneInit ==
    /\ odDone = FALSE
    /\ cKind \in {"closes", "silent"}
    /\ cValues \in SeqsUpTo(MaxLen)
    /\ cSent = 0
    /\ cCloses = 0
    /\ odPc = "select"
    /\ odV = 0
    /\ valStreamCloses = 0
    /\ odReceived = <<>>
    /\ odConsumer = "range"

OrDoneIdle == OrDoneInit /\ cKind = "silent" /\ cValues = <<>>

\* close(done), at any time.
OrDoneCloseDone ==
    /\ ~odDone
    /\ odDone' = TRUE
    /\ UNCHANGED <<cKind, cValues, cSent, cCloses, odPc, odV, valStreamCloses, odReceived, odConsumer>>
    /\ UNCHANGED notOrDone

\* The producer behind c has sent its values and closes c.
ProducerClosesC ==
    /\ cKind = "closes"
    /\ cSent = Len(cValues)
    /\ cCloses = 0
    /\ cCloses' = 1
    /\ UNCHANGED <<odDone, cKind, cValues, cSent, odPc, odV, valStreamCloses, odReceived, odConsumer>>
    /\ UNCHANGED notOrDone

\* orDone returns: defer close(valStream).
OrDoneReturn ==
    /\ odPc' = "returned"
    /\ valStreamCloses' = valStreamCloses + 1

\* outer select, case <-done: return
OrDoneSelectDone ==
    /\ odPc = "select"
    /\ odDone
    /\ OrDoneReturn
    /\ UNCHANGED <<odDone, cKind, cValues, cSent, cCloses, odV, odReceived, odConsumer>>
    /\ UNCHANGED notOrDone

\* outer select, case v, ok := <-c with ok == true: the producer's send meets
\* the receive.
OrDoneReceive ==
    /\ odPc = "select"
    /\ cCloses = 0
    /\ cSent < Len(cValues)
    /\ odV' = cValues[cSent + 1]
    /\ cSent' = cSent + 1
    /\ odPc' = "send"
    /\ UNCHANGED <<odDone, cKind, cValues, cCloses, valStreamCloses, odReceived, odConsumer>>
    /\ UNCHANGED notOrDone

\* outer select, case v, ok := <-c with ok == false: return
OrDoneReceiveClosed ==
    /\ odPc = "select"
    /\ cCloses > 0
    /\ OrDoneReturn
    /\ UNCHANGED <<odDone, cKind, cValues, cSent, cCloses, odV, odReceived, odConsumer>>
    /\ UNCHANGED notOrDone

\* An inner select that goes on without handing v to the consumer.
OrDoneSendLoses ==
    /\ odPc = "send"
    /\ odConsumer = "range"
    /\ odPc' = "select"
    /\ UNCHANGED <<odDone, cKind, cValues, cSent, cCloses, odV, valStreamCloses, odReceived, odConsumer>>
    /\ UNCHANGED notOrDone

\* An inner select that hands v over and stays in the send.
ValStreamSendAgain ==
    /\ odPc = "send"
    /\ odConsumer = "range"
    /\ odReceived' = Append(odReceived, odV)
    /\ UNCHANGED <<odDone, cKind, cValues, cSent, cCloses, odPc, odV, valStreamCloses, odConsumer>>

\* inner select, case valStream <- v: the send meets a receive of whoever
\* ranges over valStream.
ValStreamSend ==
    /\ odPc = "send"
    /\ odConsumer = "range"
    /\ odReceived' = Append(odReceived, odV)
    /\ odPc' = "select"
    /\ UNCHANGED <<odDone, cKind, cValues, cSent, cCloses, odV, valStreamCloses, odConsumer>>

\* inner select, case valStream <- v: met by the consumer's range.
OrDoneSend ==
    /\ ValStreamSend
    /\ UNCHANGED notOrDone

\* inner select, case <-done: v is dropped and the loop goes round.
OrDoneSendDone ==
    /\ odPc = "send"
    /\ odDone
    /\ odPc' = "select"
    /\ UNCHANGED <<odDone, cKind, cValues, cSent, cCloses, odV, valStreamCloses, odReceived, odConsumer>>
    /\ UNCHANGED notOrDone

\* for val := range orDone(done, myChan) ends when valStream is closed.
OrDoneConsumerClosed ==
    /\ odConsumer = "range"
    /\ valStreamCloses > 0
    /\ odConsumer' = "done"
    /\ UNCHANGED <<odDone, cKind, cValues, cSent, cCloses, odPc, odV, valStreamCloses, odReceived>>
    /\ UNCHANGED notOrDone

NextOrDone ==
    \/ OrDoneCloseDone
    \/ ProducerClosesC
    \/ OrDoneSelectDone
    \/ OrDoneReceive
    \/ OrDoneReceiveClosed
    \/ OrDoneSend
    \/ OrDoneSendDone
    \/ OrDoneConsumerClosed

\* orDone and the ranging consumer are scheduled; a done case that is ready
\* again and again is taken.  When the producer sends or closes and when done
\* is closed is up to them.
OrDoneFairness ==
    /\ SF_vars(OrDoneSelectDone)
    /\ WF_vars(OrDoneReceiveClosed)
    /\ WF_vars(OrDoneSend)
    /\ WF_vars(OrDoneConsumerClosed)

\* =========================================================================
\* tee
\* =========================================================================
Outs == 1..2     \* out1, out2

\* tee has made out1 and out2; its goroutine is at pc.
TeeAt(at) ==
    /\ teePc = at
    /\ teeVal = 0
    /\ teeIter = 0
    /\ outNil = [k \in Outs |-> FALSE]
    /\ outCloses = [k \in Outs |-> 0]
    /\ teeOut = [k \in Outs |-> <<>>]

TeeInit == TeeAt("range")

TeeIdle == TeeAt("none")

\* for val := range orDone(done, in): the loop takes the value orDone offers;
\* var out1, out2 = out1, out2; i := 0
TeeTake ==
    /\ teePc = "range"
    /\ ValStreamSend
    /\ teeVal' = odV
    /\ teeIter' = 0
    /\ outNil' = [k \in Outs |-> FALSE]
    /\ teePc' = "select"
    /\ UNCHANGED <<outCloses, teeOut>>
    /\ UNCHANGED notTeeNorOrDone

\* i++ after one select; after the second the range asks for the next value.
TeeNextIter ==
    /\ teeIter' = teeIter + 1
    /\ teePc' = IF teeIter + 1 < 2 THEN "select" ELSE "range"

\* A select that leaves the shadowed copies alone: the second iteration may
\* send on the output that already has the value.
TeeSendKeepsChannel(k) ==
    /\ teePc = "select"
    /\ teeOut' = [teeOut EXCEPT ![k] = Append(@, teeVal)]
    /\ TeeNextIter
    /\ UNCHANGED <<teeVal, outNil, outCloses>>
    /\ UNCHANGED notTee

\* case out1 <- val: out1 = nil (case out2 <- val: out2 = nil), met by the
\* receive of that output's consumer.  A send on the nil copy never proceeds.
TeeSend(k) ==
    /\ teePc = "select"
    /\ ~outNil[k]
    /\ teeOut' = [teeOut EXCEPT ![k] = Append(@, teeVal)]
    /\ outNil' = [outNil EXCEPT ![k] = TRUE]
    /\ TeeNextIter
    /\ UNCHANGED <<teeVal, outCloses>>
    /\ UNCHANGED notTee

\* case <-done: nothing is sent in this iteration.
TeeSelectDone ==
    /\ teePc = "select"
    /\ odDone
    /\ TeeNextIter
    /\ UNCHANGED <<teeVal, outNil, outCloses, teeOut>>
    /\ UNCHANGED notTee

\* The range ends when orDone's valStream is closed; tee's goroutine returns:
\* defer close(out2), defer close(out1).
TeeRangeClosed ==
    /\ teePc = "range"
    /\ valStreamCloses > 0
    /\ odConsumer' = "done"
    /\ teePc' = "returned"
    /\ outCloses' = [k \in Outs |-> outCloses[k] + 1]
    /\ UNCHANGED <<odDone, cKind, cValues, cSent, cCloses, odPc, odV, valStreamCloses,
                   odReceived>>
    /\ UNCHANGED <<teeVal, teeIter, outNil, teeOut>>
    /\ UNCHANGED notTeeNorOrDone

NextTee ==
    \/ OrDoneCloseDone
    \/ ProducerClosesC
    \/ OrDoneSelectDone
    \/ OrDoneReceive
    \/ OrDoneReceiveClosed
    \/ OrDoneSendDone
    \/ TeeTake
    \/ \E k \in Outs : TeeSend(k)
    \/ TeeSelectDone
    \/ TeeRangeClosed

\* The goroutines of tee and of its orDone are scheduled and the consumers of
\* out1 and out2 keep receiving; when the producer of in sends or closes and
\* when done is closed is up to them.
TeeFairness ==
    /\ SF_vars(OrDoneSelectDone)
    /\ WF_vars(OrDoneReceiveClosed)
    /\ WF_vars(TeeTake)
    /\ \A k \in Outs : WF_vars(TeeSend(k))
    /\ WF_vars(TeeRangeClosed)

\* =========================================================================
\* take of repeat
\* =========================================================================
MaxTake == 2     \* largest num handed to take

\* The zero value a receive on a closed channel yields.
ZeroValue == 0

TakeNInit ==
    /\ tnDone = FALSE
    /\ repValues \in SeqsUpTo(MaxLen)
    /\ repPc = "loop"
    /\ repIdx = 1
    /\ repCloses = 0
    /\ repHanded = 0
    /\ numTake \in 0..MaxTake
    /\ takeNPc = "loop"
    /\ takeNI = 0
    /\ takeNV = ZeroValue
    /\ takeStreamCloses = 0
    /\ taken = <<>>
    /\ takeConsumer = "range"

TakeNIdle == TakeNInit /\ repValues = <<>> /\ numTake = 0

\* close(done), at any time.
TakeNCloseDone ==
    /\ ~tnDone
    /\ tnDone' = TRUE
    /\ UNCHANGED <<repValues, repPc, repIdx, repCloses, repHanded, numTake, takeNPc,
                   takeNI, takeNV, takeStreamCloses, taken, takeConsumer>>
    /\ UNCHANGED notTakeN

\* repeat: for { for _, v := range values { select {: the next value is at
\* hand and the select is entered.
RepeatValue ==
    /\ repPc = "loop"
    /\ repValues # <<>>
    /\ repPc' = "select"
    /\ UNCHANGED <<tnDone, repValues, repIdx, repCloses, repHanded, numTake, takeNPc,
                   takeNI, takeNV, takeStreamCloses, taken, takeConsumer>>
    /\ UNCHANGED notTakeN

\* repeat with no values: the inner range is empty and the outer for goes
\* round without ever reaching a select.
RepeatNoValues ==
    /\ repPc = "loop"
    /\ repValues = <<>>
    /\ UNCHANGED vars

\* repeat: case <-done: return; defer close(valueStream)
RepeatSelectDone ==
    /\ repPc = "select"
    /\ tnDone
    /\ repPc' = "returned"
    /\ repCloses' = repCloses + 1
    /\ UNCHANGED <<tnDone, repValues, repIdx, repHanded, numTake, takeNPc,
                   takeNI, takeNV, takeStreamCloses, taken, takeConsumer>>
    /\ UNCHANGED notTakeN

\* take returns: defer close(takeStream)
TakeNReturn ==
    /\ takeNPc' = "returned"
    /\ takeStreamCloses' = takeStreamCloses + 1

\* A take that counts to num + 1.
TakeNOneMore == takeNI <= numTake

\* take: i < num
TakeNGoesOn == takeNI < numTake

\* take: for i := 0; i < num; i++: the select of the next round evaluates
\* <-valueStream first; after num rounds the goroutine returns.
TakeNLoop ==
    /\ takeNPc = "loop"
    /\ IF TakeNGoesOn
          THEN takeNPc' = "recv" /\ UNCHANGED takeStreamCloses
          ELSE TakeNReturn
    /\ UNCHANGED <<tnDone, repValues, repPc, repIdx, repCloses, repHanded, numTake,
                   takeNI, takeNV, taken, takeConsumer>>
    /\ UNCHANGED notTakeN

\* take's <-valueStream meets repeat's case valueStream <- v; repeat goes on
\* to its next value.
TakeNRecv ==
    /\ takeNPc = "recv"
    /\ repPc = "select"
    /\ takeNV' = repValues[repIdx]
    /\ takeNPc' = "select"
    /\ repHanded' = repHanded + 1
    /\ repIdx' = IF repIdx = Len(repValues) THEN 1 ELSE repIdx + 1
    /\ repPc' = "loop"
    /\ UNCHANGED <<tnDone, repValues, repCloses, numTake, takeNI, takeStreamCloses,
                   taken, takeConsumer>>
    /\ UNCHANGED notTakeN

\* A take that returns when its valueStream is closed.
TakeNRecvClosedReturns ==
    /\ takeNPc = "recv"
    /\ repCloses > 0
    /\ TakeNReturn
    /\ UNCHANGED <<tnDone, repValues, repPc, repIdx, repCloses, repHanded, numTake,
                   takeNI, takeNV, taken, takeConsumer>>
    /\ UNCHANGED notTakeN

\* take's <-valueStream on the closed valueStream yields the zero value.
TakeNRecvClosed ==
    /\ takeNPc = "recv"
    /\ repCloses > 0
    /\ takeNV' = ZeroValue
    /\ takeNPc' = "select"
    /\ UNCHANGED <<tnDone, repValues, repPc, repIdx, repCloses, repHanded, numTake,
                   takeNI, takeStreamCloses, taken, takeConsumer>>
    /\ UNCHANGED notTakeN

\* take: case <-done: return
TakeNSelectDone ==
    /\ takeNPc = "select"
    /\ tnDone
    /\ TakeNReturn
    /\ UNCHANGED <<tnDone, repValues, repPc, repIdx, repCloses, repHanded, numTake,
                   takeNI, takeNV, taken, takeConsumer>>
    /\ UNCHANGED notTakeN

\* take: case takeStream <- (the value received), met by the consumer's range.
TakeNSend ==
    /\ takeNPc = "select"
    /\ takeConsumer = "range"
    /\ taken' = Append(taken, takeNV)
    /\ takeNI' = takeNI + 1
    /\ takeNPc' = "loop"
    /\ UNCHANGED <<tnDone, repValues, repPc, repIdx, repCloses, repHanded, numTake,
                   takeNV, takeStreamCloses, takeConsumer>>
    /\ UNCHANGED notTakeN

\* for num := range take(...) ends when takeStream is closed.
TakeNConsumerClosed ==
    /\ takeConsumer = "range"
    /\ takeStreamCloses > 0
    /\ takeConsumer' = "done"
    /\ UNCHANGED <<tnDone, repValues, repPc, repIdx, repCloses, repHanded, numTake,
                   takeNPc, takeNI, takeNV, takeStreamCloses, taken>>
    /\ UNCHANGED notTakeN

NextTakeN ==
    \/ TakeNCloseDone
    \/ RepeatValue
    \/ RepeatNoValues
    \/ RepeatSelectDone
    \/ TakeNLoop
    \/ TakeNRecv
    \/ TakeNRecvClosed
    \/ TakeNSelectDone
    \/ TakeNSend
    \/ TakeNConsumerClosed

\* The goroutines of repeat and take and the ranging consumer are scheduled; a
\* done case that is ready again and again is taken.
TakeNFairness ==
    /\ WF_vars(RepeatValue)
    /\ SF_vars(RepeatSelectDone)
    /\ WF_vars(TakeNLoop)
    /\ WF_vars(TakeNRecv)
    /\ WF_vars(TakeNRecvClosed)
    /\ SF_vars(TakeNSelectDone)
    /\ WF_vars(TakeNSend)
    /\ WF_vars(TakeNConsumerClosed)

\* The values repeat has produced: those handed over and the one it holds in
\* its select.
RepeatProduced == repHanded + (IF repPc = "select" THEN 1 ELSE 0)

\* The first n values of values repeated for ever.
Repeated(values, n) == [i \in 1..n |-> values[((i - 1) % Len(values)) + 1]]

\* -------------------------------------------------------------------------
\* take of a valueStream that is closed by its producer: generator sends its
\* integers once and returns.
\* -------------------------------------------------------------------------

\* generator: for _, i := range integers { select {: the next integer is at
\* hand and the select is entered.
GeneratorValue ==
    /\ repPc = "loop"
    /\ repHanded < Len(repValues)
    /\ repPc' = "select"
    /\ UNCHANGED <<tnDone, repValues, repIdx, repCloses, repHanded, numTake, takeNPc,
                   takeNI, takeNV, takeStreamCloses, taken, takeConsumer>>
    /\ UNCHANGED notTakeN

\* generator: the range over integers is over; defer close(intStream)
GeneratorReturn ==
    /\ repPc = "loop"
    /\ repHanded = Len(repValues)
    /\ repPc' = "returned"
    /\ repCloses' = repCloses + 1
    /\ UNCHANGED <<tnDone, repValues, repIdx, repHanded, numTake, takeNPc,
                   takeNI, takeNV, takeStreamCloses, taken, takeConsumer>>
    /\ UNCHANGED notTakeN

NextTakeGen ==
    \/ TakeNCloseDone
    \/ GeneratorValue
    \/ GeneratorReturn
    \/ RepeatSelectDone
    \/ TakeNLoop
    \/ TakeNRecv
    \/ TakeNRecvClosed
    \/ TakeNSelectDone
    \/ TakeNSend
    \/ TakeNConsumerClosed

\* The goroutines of generator and take and the ranging consumer are
\* scheduled; when done is closed is up to main.
TakeGenFairness ==
    /\ WF_vars(GeneratorValue)
    /\ WF_vars(GeneratorReturn)
    /\ WF_vars(TakeNLoop)
    /\ WF_vars(TakeNRecv)
    /\ WF_vars(TakeNRecvClosed)
    /\ SF_vars(TakeNSend)
    /\ WF_vars(TakeNConsumerClosed)

\* The first n values received from a channel on which values were sent
\* before it was closed.
ReceivedFromClosed(values, n) ==
    [i \in 1..n |-> IF i <= Len(values) THEN values[i] ELSE ZeroValue]

\* =========================================================================
\* bridge
\* =========================================================================
MaxStreams == 2  \* most inner channels sent on chanStream
MaxInner == 2    \* most values one inner channel carries

\* The i-th value of the k-th inner channel.
StreamValue(k, i) == k * (MaxInner + 1) + i

\* The values of the k-th inner channel, in order.
StreamValues(k) == [i \in 1..streamLens[k] |-> StreamValue(k, i)]

\* The values of the first n inner channels, one channel after the other.
RECURSIVE Flatten(_)
Flatten(n) == IF n = 0 THEN <<>> ELSE Flatten(n - 1) \o StreamValues(n)

\* bridge has made valStream and started its goroutine (at = "select"), or
\* was not called (at = "none").
BridgeAt(at) ==
    /\ streamLens \in [1..MaxStreams -> 0..MaxInner]
    /\ nStreams \in 0..MaxStreams
    /\ \A k \in 1..MaxStreams : k > nStreams => streamLens[k] = 0
    /\ streamsHanded = 0
    /\ chanStreamCloses = 0
    /\ bridgePc = at
    /\ bridgeVal = 0
    /\ bridgeCloses = 0
    /\ bridged = <<>>
    /\ bridgeConsumer = "range"

\* No orDone has been started yet.
NoOrDone ==
    /\ odDone = FALSE
    /\ cKind = "silent"
    /\ cValues = <<>>
    /\ cSent = 0
    /\ cCloses = 0
    /\ odPc = "none"
    /\ odV = 0
    /\ valStreamCloses = 0
    /\ odReceived = <<>>
    /\ odConsumer = "range"

BridgeInit == BridgeAt("select") /\ NoOrDone

BridgeIdle == BridgeAt("none") /\ nStreams = 0

\* bridge returns: defer close(valStream)
BridgeReturn ==
    /\ bridgePc' = "returned"
    /\ bridgeCloses' = bridgeCloses + 1

\* case maybeStream, ok := <-chanStream with ok == true, meeting the
\* producer's chanStream <- stream; stream = maybeStream, and
\* orDone(done, stream) makes its valStream and starts its goroutine.
BridgeTakeStream ==
    /\ bridgePc = "select"
    /\ chanStreamCloses = 0
    /\ streamsHanded < nStreams
    /\ streamsHanded' = streamsHanded + 1
    /\ bridgePc' = "range"
    /\ cKind' = "closes"
    /\ cValues' = StreamValues(streamsHanded + 1)
    /\ cSent' = 0
    /\ cCloses' = 0
    /\ odPc' = "select"
    /\ odV' = 0
    /\ valStreamCloses' = 0
    /\ odReceived' = <<>>
    /\ odConsumer' = "range"
    /\ UNCHANGED <<odDone, streamLens, nStreams, chanStreamCloses, bridgeVal,
                   bridgeCloses, bridged, bridgeConsumer>>
    /\ UNCHANGED notBridgeNorOrDone

\* The producer has sent all its channels: defer close(chanStream).
ChanStreamClose ==
    /\ bridgePc # "none"
    /\ chanStreamCloses = 0
    /\ streamsHanded = nStreams
    /\ chanStreamCloses' = 1
    /\ UNCHANGED <<streamLens, nStreams, streamsHanded, bridgePc, bridgeVal,
                   bridgeCloses, bridged, bridgeConsumer>>
    /\ UNCHANGED notBridge

\* case maybeStream, ok := <-chanStream with ok == false: return
BridgeChanStreamClosed ==
    /\ bridgePc = "select"
    /\ chanStreamCloses > 0
    /\ BridgeReturn
    /\ UNCHANGED <<streamLens, nStreams, streamsHanded, chanStreamCloses, bridgeVal,
                   bridged, bridgeConsumer>>
    /\ UNCHANGED notBridge

\* outer select, case <-done: return
BridgeSelectDone ==
    /\ bridgePc = "select"
    /\ odDone
    /\ BridgeReturn
    /\ UNCHANGED <<streamLens, nStreams, streamsHanded, chanStreamCloses, bridgeVal,
                   bridged, bridgeConsumer>>
    /\ UNCHANGED notBridge

\* for val := range orDone(done, stream): the loop takes the value orDone
\* offers.
BridgeTakeVal ==
    /\ bridgePc = "range"
    /\ ValStreamSend
    /\ bridgeVal' = odV
    /\ bridgePc' = "send"
    /\ UNCHANGED <<streamLens, nStreams, streamsHanded, chanStreamCloses,
                   bridgeCloses, bridged, bridgeConsumer>>
    /\ UNCHANGED notBridgeNorOrDone

\* An inner select that goes on without handing val to the consumer.
BridgeSendLoses ==
    /\ bridgePc = "send"
    /\ bridgeConsumer = "range"
    /\ bridgePc' = "range"
    /\ UNCHANGED <<streamLens, nStreams, streamsHanded, chanStreamCloses, bridgeVal,
                   bridgeCloses, bridged, bridgeConsumer>>
    /\ UNCHANGED notBridge

\* case valStream <- val, met by the consumer's range.
BridgeSend ==
    /\ bridgePc = "send"
    /\ bridgeConsumer = "range"
    /\ bridged' = Append(bridged, bridgeVal)
    /\ bridgePc' = "range"
    /\ UNCHANGED <<streamLens, nStreams, streamsHanded, chanStreamCloses, bridgeVal,
                   bridgeCloses, bridgeConsumer>>
    /\ UNCHANGED notBridge

\* inner select, case <-done: val is dropped.
BridgeSendDone ==
    /\ bridgePc = "send"
    /\ odDone
    /\ bridgePc' = "range"
    /\ UNCHANGED <<streamLens, nStreams, streamsHanded, chanStreamCloses, bridgeVal,
                   bridgeCloses, bridged, bridgeConsumer>>
    /\ UNCHANGED notBridge

\* The range ends when orDone's valStream is closed; the outer for goes round.
BridgeRangeClosed ==
    /\ bridgePc = "range"
    /\ valStreamCloses > 0
    /\ odConsumer' = "done"
    /\ bridgePc' = "select"
    /\ UNCHANGED <<odDone, cKind, cValues, cSent, cCloses, odPc, odV, valStreamCloses,
                   odReceived>>
    /\ UNCHANGED <<streamLens, nStreams, streamsHanded, chanStreamCloses, bridgeVal,
                   bridgeCloses, bridged, bridgeConsumer>>
    /\ UNCHANGED notBridgeNorOrDone

\* for v := range bridge(nil, genVals()) ends when valStream is closed.
BridgeConsumerClosed ==
    /\ bridgeConsumer = "range"
    /\ bridgeCloses > 0
    /\ bridgeConsumer' = "done"
    /\ UNCHANGED <<streamLens, nStreams, streamsHanded, chanStreamCloses, bridgePc,
                   bridgeVal, bridgeCloses, bridged>>
    /\ UNCHANGED notBridge

NextBridge ==
    \/ OrDoneCloseDone
    \/ BridgeTakeStream
    \/ ChanStreamClose
    \/ BridgeChanStreamClosed
    \/ BridgeSelectDone
    \/ ProducerClosesC
    \/ OrDoneSelectDone
    \/ OrDoneReceive
    \/ OrDoneReceiveClosed
    \/ OrDoneSendDone
    \/ BridgeTakeVal
    \/ BridgeSend
    \/ BridgeSendDone
    \/ BridgeRangeClosed
    \/ BridgeConsumerClosed

\* The goroutines of bridge, of orDone and of the producer (which fills and
\* closes each inner channel before it sends it) are scheduled, and the
\* consumer keeps ranging; a done case that is ready again and again is taken.
BridgeFairness ==
    /\ WF_vars(BridgeTakeStream)
    /\ WF_vars(ChanStreamClose)
    /\ WF_vars(BridgeChanStreamClosed)
    /\ SF_vars(BridgeSelectDone)
    /\ WF_vars(ProducerClosesC)
    /\ SF_vars(OrDoneSelectDone)
    /\ WF_vars(OrDoneReceive)
    /\ WF_vars(OrDoneReceiveClosed)
    /\ WF_vars(BridgeTakeVal)
    /\ WF_vars(BridgeSend)
    /\ WF_vars(BridgeRangeClosed)
    /\ WF_vars(BridgeConsumerClosed)

\* =========================================================================
\* The worker with a simulated panic and the observer of its heartbeat
\* (time in seconds)
\* =========================================================================
HealthTimeout == 2      \* const timeout = 2 * time.Second
CancelAfter == 10       \* time.AfterFunc(10*time.Second, func() { close(done) })
FaultyIterations == 2   \* for i := 0; i < 2; i++
PulseInterval == HealthTimeout \div 2
WorkGenInterval == 2 * PulseInterval

FaultyInit ==
    /\ fwDone = FALSE
    /\ doneLeft = CancelAfter
    /\ fwPc = "select"
    /\ fwI = 0
    /\ fwPulse = FALSE
    /\ fwWorkGen = FALSE
    /\ pulseLeft = PulseInterval
    /\ workGenLeft = WorkGenInterval
    /\ obsPc = "select"
    /\ obsWaited = 0
    /\ obsSeen = FALSE

FaultyIdle ==
    /\ fwDone = FALSE
    /\ doneLeft = 0
    /\ fwPc = "none"
    /\ fwI = 0
    /\ fwPulse = FALSE
    /\ fwWorkGen = FALSE
    /\ pulseLeft = 0
    /\ workGenLeft = 0
    /\ obsPc = "none"
    /\ obsWaited = 0
    /\ obsSeen = FALSE

\* the function handed to time.AfterFunc runs when its timer expires
FaultyCloseDone ==
    /\ fwPc # "none"
    /\ doneLeft = 0
    /\ ~fwDone
    /\ fwDone' = TRUE
    /\ UNCHANGED <<doneLeft, fwPc, fwI, fwPulse, fwWorkGen, pulseLeft,
                   workGenLeft, obsPc, obsWaited, obsSeen>>
    /\ UNCHANGED notFaulty

\* sendPulse: the send succeeds when the observer waits in its select, and
\* falls to the default case otherwise
SendPulse ==
    /\ obsPc' = IF obsPc = "select" THEN "print" ELSE obsPc
    /\ obsSeen' = (obsSeen \/ obsPc = "select")
    /\ UNCHANGED obsWaited

\* the end of one iteration of the worker's loop
FaultyIterate ==
    /\ fwI' = fwI + 1
    /\ fwPc' = IF fwI + 1 < FaultyIterations THEN "select" ELSE "exited"

FaultySelectDone ==
    /\ fwPc = "select"
    /\ fwDone
    /\ fwPc' = "returned"
    /\ UNCHANGED <<fwDone, doneLeft, fwI, fwPulse, fwWorkGen, pulseLeft,
                   workGenLeft, obsPc, obsWaited, obsSeen>>
    /\ UNCHANGED notFaulty

FaultySelectPulse ==
    /\ fwPc = "select"
    /\ fwPulse
    /\ fwPulse' = FALSE
    /\ SendPulse
    /\ FaultyIterate
    /\ UNCHANGED <<fwDone, doneLeft, fwWorkGen, pulseLeft, workGenLeft>>
    /\ UNCHANGED notFaulty

FaultySelectWorkGen ==
    /\ fwPc = "select"
    /\ fwWorkGen
    /\ fwWorkGen' = FALSE
    /\ fwPc' = "sendResult"
    /\ UNCHANGED <<fwDone, doneLeft, fwI, fwPulse, pulseLeft, workGenLeft,
                   obsPc, obsWaited, obsSeen>>
    /\ UNCHANGED notFaulty

SendResultPulse ==
    /\ fwPc = "sendResult"
    /\ fwPulse
    /\ fwPulse' = FALSE
    /\ SendPulse
    /\ UNCHANGED <<fwDone, doneLeft, fwPc, fwI, fwWorkGen, pulseLeft, workGenLeft>>
    /\ UNCHANGED notFaulty

\* results is unbuffered: the send meets the observer's receive
SendResultSend ==
    /\ fwPc = "sendResult"
    /\ obsPc = "select"
    /\ obsPc' = "print"
    /\ obsSeen' = TRUE
    /\ FaultyIterate
    /\ UNCHANGED <<fwDone, doneLeft, fwPulse, fwWorkGen, pulseLeft,
                   workGenLeft, obsWaited>>
    /\ UNCHANGED notFaulty

\* the observer prints and enters its select again, with a new time.After
ObsLoop ==
    /\ obsPc = "print"
    /\ obsPc' = "select"
    /\ obsWaited' = 0
    /\ UNCHANGED <<fwDone, doneLeft, fwPc, fwI, fwPulse, fwWorkGen, pulseLeft,
                   workGenLeft, obsSeen>>
    /\ UNCHANGED notFaulty

TimerExpiredLate == obsWaited = CancelAfter

TimerExpired == obsWaited = HealthTimeout

\* case <-time.After(timeout): "worker goroutine is not healthy!"
ObsTimeout ==
    /\ obsPc = "select"
    /\ TimerExpired
    /\ obsPc' = "unhealthy"
    /\ UNCHANGED <<fwDone, doneLeft, fwPc, fwI, fwPulse, fwWorkGen, pulseLeft,
                   workGenLeft, obsWaited, obsSeen>>
    /\ UNCHANGED notFaulty

\* One second passes.  The tickers keep at most one unread tick; the worker
\* may be late in reading them.  An expired timer of the observer's select and
\* the print of the observer come first.
FaultyTimePasses ==
    /\ fwPc # "none"
    /\ obsPc # "print"
    /\ ~(obsPc = "select" /\ TimerExpired)
    /\ ~(doneLeft = 0 /\ ~fwDone)
    /\ doneLeft' = IF doneLeft > 0 THEN doneLeft - 1 ELSE 0
    /\ pulseLeft' = IF pulseLeft = 1 THEN PulseInterval ELSE pulseLeft - 1
    /\ fwPulse' = (fwPulse \/ pulseLeft = 1)
    /\ workGenLeft' = IF workGenLeft = 1 THEN WorkGenInterval ELSE workGenLeft - 1
    /\ fwWorkGen' = (fwWorkGen \/ workGenLeft = 1)
    /\ obsWaited' = IF obsPc = "select" THEN obsWaited + 1 ELSE obsWaited
    /\ UNCHANGED <<fwDone, fwPc, fwI, obsPc, obsSeen>>
    /\ UNCHANGED notFaulty

NextFaulty ==
    \/ FaultyCloseDone
    \/ FaultySelectDone
    \/ FaultySelectPulse
    \/ FaultySelectWorkGen
    \/ SendResultPulse
    \/ SendResultSend
    \/ ObsLoop
    \/ ObsTimeout
    \/ FaultyTimePasses

FaultyFairness ==
    /\ WF_vars(FaultyCloseDone)
    /\ WF_vars(FaultySelectDone)
    /\ WF_vars(FaultySelectPulse)
    /\ WF_vars(FaultySelectWorkGen)
    /\ WF_vars(SendResultSend)
    /\ WF_vars(ObsLoop)
    /\ WF_vars(ObsTimeout)
    /\ WF_vars(FaultyTimePasses)

\* =========================================================================
\* Replicated requests: handlers doWork(done, id, &wg, result) and main
\* =========================================================================
Handlers == 1..NumHandlers
NoResult == 0

ReplInit ==
    /\ replDone = FALSE
    /\ handlerPc = [h \in Handlers |-> "load"]
    /\ handlersWg = NumHandlers
    /\ mainPc = "receive"
    /\ firstReturned = NoResult
    /\ resultsReceived = 0

ReplIdle ==
    /\ replDone = FALSE
    /\ handlerPc = [h \in Handlers |-> "none"]
    /\ handlersWg = 0
    /\ mainPc = "none"
    /\ firstReturned = NoResult
    /\ resultsReceived = 0

\* first select of doWork: case <-time.After(simulatedLoadTime)
HandlerLoaded(h) ==
    /\ handlerPc[h] = "load"
    /\ handlerPc' = [handlerPc EXCEPT ![h] = "send"]
    /\ UNCHANGED <<replDone, handlersWg, mainPc, firstReturned, resultsReceived>>
    /\ UNCHANGED notRepl

\* first select of doWork: case <-done
HandlerLoadCancelled(h) ==
    /\ handlerPc[h] = "load"
    /\ replDone
    /\ handlerPc' = [handlerPc EXCEPT ![h] = "send"]
    /\ UNCHANGED <<replDone, handlersWg, mainPc, firstReturned, resultsReceived>>
    /\ UNCHANGED notRepl

\* second select: case result <- id, met by main's firstReturned := <-result
HandlerSend(h) ==
    /\ handlerPc[h] = "send"
    /\ mainPc = "receive"
    /\ firstReturned' = h
    /\ resultsReceived' = resultsReceived + 1
    /\ mainPc' = "close"
    /\ handlerPc' = [handlerPc EXCEPT ![h] = "report"]
    /\ UNCHANGED <<replDone, handlersWg>>
    /\ UNCHANGED notRepl

\* second select: case <-done
HandlerSendCancelled(h) ==
    /\ handlerPc[h] = "send"
    /\ replDone
    /\ handlerPc' = [handlerPc EXCEPT ![h] = "report"]
    /\ UNCHANGED <<replDone, handlersWg, mainPc, firstReturned, resultsReceived>>
    /\ UNCHANGED notRepl

\* the handler prints how long it took and returns: defer wg.Done()
HandlerReturn(h) ==
    /\ handlerPc[h] = "report"
    /\ handlerPc' = [handlerPc EXCEPT ![h] = "returned"]
    /\ handlersWg' = handlersWg - 1
    /\ UNCHANGED <<replDone, mainPc, firstReturned, resultsReceived>>
    /\ UNCHANGED notRepl

MainForgetsClose ==
    /\ mainPc = "close"
    /\ mainPc' = "wait"
    /\ UNCHANGED <<replDone, handlerPc, handlersWg, firstReturned, resultsReceived>>
    /\ UNCHANGED notRepl

MainCloseDone ==
    /\ mainPc = "close"
    /\ replDone' = TRUE
    /\ mainPc' = "wait"
    /\ UNCHANGED <<handlerPc, handlersWg, firstReturned, resultsReceived>>
    /\ UNCHANGED notRepl

\* wg.Wait() returns when the counter is zero
MainWait ==
    /\ mainPc = "wait"
    /\ handlersWg = 0
    /\ mainPc' = "finished"
    /\ UNCHANGED <<replDone, handlerPc, handlersWg, firstReturned, resultsReceived>>
    /\ UNCHANGED notRepl

NextRepl ==
    \/ \E h \in Handlers :
        \/ HandlerLoaded(h)
        \/ HandlerLoadCancelled(h)
        \/ HandlerSend(h)
        \/ HandlerSendCancelled(h)
        \/ HandlerReturn(h)
    \/ MainCloseDone
    \/ MainWait

ReplFairness ==
    /\ \A h \in Handlers :
        /\ WF_vars(HandlerLoaded(h))
        /\ WF_vars(HandlerSend(h))
        /\ WF_vars(HandlerSendCancelled(h))
        /\ WF_vars(HandlerReturn(h))
    /\ WF_vars(MainCloseDone)
    /\ WF_vars(MainWait)

\* =========================================================================
\* The Context example with the Deadline check in locale3
\* =========================================================================
GreetingTimeout == 1   \* context.WithTimeout(ctx, 1*time.Second)
LocaleSeconds == 60    \* time.After(1 * time.Minute)
Calls == {"greeting", "farewell"}

CtxAt(at) ==
    /\ ctxErr = "nil"
    /\ childErr = "nil"
    /\ deadlineLeft = 0
    /\ callPc = [b \in Calls |-> at]
    /\ callErr = [b \in Calls |-> "nil"]
    /\ localeWaited = [b \in Calls |-> 0]
    /\ printed = [b \in Calls |-> FALSE]
    /\ ctxLate = 0

CtxInit == CtxAt("gen") /\ ctxWg = 2
CtxIdle == CtxAt("none") /\ ctxWg = 0

\* genGreeting3 wraps the Context it is given in one with a timeout
HasDeadline(b) == b = "greeting"

\* Err() of the Context locale3 is given; cancelling main's Context cancels
\* the one made from it
ErrOf(b) ==
    IF HasDeadline(b) /\ childErr # "nil" THEN childErr ELSE ctxErr

\* genGreeting3 / genFarewell3 up to the call of locale3
GenStart(b) ==
    /\ callPc[b] = "gen"
    /\ callPc' = [callPc EXCEPT ![b] = "deadline"]
    /\ deadlineLeft' = IF HasDeadline(b) THEN GreetingTimeout ELSE deadlineLeft
    /\ UNCHANGED <<ctxErr, childErr, callErr, localeWaited, printed, ctxWg, ctxLate>>
    /\ UNCHANGED notCtx

\* the timer of WithTimeout
DeadlinePasses ==
    /\ callPc["greeting"] \in {"deadline", "select", "return"}
    /\ deadlineLeft = 0
    /\ childErr = "nil"
    /\ childErr' = "DeadlineExceeded"
    /\ UNCHANGED <<ctxErr, deadlineLeft, callPc, callErr, localeWaited, printed,
                   ctxWg, ctxLate>>
    /\ UNCHANGED notCtx

\* deadline.Sub(time.Now().Add(1*time.Minute)) <= 0 fails the call
MeetsDeadline(b) == ~HasDeadline(b) \/ deadlineLeft - LocaleSeconds > 0

LocaleDeadline(b) ==
    /\ callPc[b] = "deadline"
    /\ IF MeetsDeadline(b)
       THEN callPc' = [callPc EXCEPT ![b] = "select"] /\ UNCHANGED callErr
       ELSE /\ callPc' = [callPc EXCEPT ![b] = "return"]
            /\ callErr' = [callErr EXCEPT ![b] = "DeadlineExceeded"]
    /\ UNCHANGED <<ctxErr, childErr, deadlineLeft, localeWaited, printed, ctxWg, ctxLate>>
    /\ UNCHANGED notCtx

\* the cases of locale3's select that are ready, by the error they return
SelectReady(b) ==
    (IF ErrOf(b) # "nil" THEN {ErrOf(b)} ELSE {})
        \cup (IF localeWaited[b] >= LocaleSeconds THEN {"nil"} ELSE {})

LocaleSelect(b) ==
    /\ callPc[b] = "select"
    /\ \E e \in SelectReady(b) : callErr' = [callErr EXCEPT ![b] = e]
    /\ callPc' = [callPc EXCEPT ![b] = "return"]
    /\ UNCHANGED <<ctxErr, childErr, deadlineLeft, localeWaited, printed, ctxWg, ctxLate>>
    /\ UNCHANGED notCtx

\* genGreeting3 returns: defer cancel()
GenReturn(b) ==
    /\ callPc[b] = "return"
    /\ callPc' = [callPc EXCEPT ![b] = "report"]
    /\ childErr' = IF HasDeadline(b) /\ childErr = "nil" THEN "Canceled" ELSE childErr
    /\ UNCHANGED <<ctxErr, deadlineLeft, callErr, localeWaited, printed, ctxWg, ctxLate>>
    /\ UNCHANGED notCtx

ReportKeepsContext(b) == ctxErr

\* main's goroutine of the greeting calls cancel() on an error
CtxErrAfterReport(b) ==
    IF b = "greeting" /\ callErr[b] # "nil" /\ ctxErr = "nil" THEN "Canceled" ELSE ctxErr

\* printGreeting3 / printFarewell3 return, main's goroutine reports: wg.Done()
CallReport(b) ==
    /\ callPc[b] = "report"
    /\ callPc' = [callPc EXCEPT ![b] = "done"]
    /\ printed' = [printed EXCEPT ![b] = (callErr[b] = "nil")]
    /\ ctxErr' = CtxErrAfterReport(b)
    /\ ctxWg' = ctxWg - 1
    /\ UNCHANGED <<childErr, deadlineLeft, callErr, localeWaited, ctxLate>>
    /\ UNCHANGED notCtx

CtxStep ==
    \/ DeadlinePasses
    \/ \E b \in Calls :
        \/ GenStart(b)
        \/ LocaleDeadline(b)
        \/ LocaleSelect(b)
        \/ GenReturn(b)
        \/ CallReport(b)

\* One second passes: at once when no goroutine can run, and otherwise at the
\* cost of a second of lateness.
CtxTimePasses ==
    /\ \E b \in Calls : callPc[b] \notin {"none", "done"}
    /\ ctxLate' = IF ENABLED CtxStep THEN ctxLate + 1 ELSE ctxLate
    /\ ctxLate' <= MaxLate
    /\ deadlineLeft' = IF deadlineLeft > 0 THEN deadlineLeft - 1 ELSE 0
    /\ localeWaited' = [b \in Calls |->
            IF callPc[b] = "select" /\ localeWaited[b] < LocaleSeconds
            THEN localeWaited[b] + 1 ELSE localeWaited[b]]
    /\ UNCHANGED <<ctxErr, childErr, callPc, callErr, printed, ctxWg>>
    /\ UNCHANGED notCtx

NextCtx == CtxStep \/ CtxTimePasses

CtxFairness ==
    /\ WF_vars(DeadlinePasses)
    /\ \A b \in Calls :
        /\ WF_vars(GenStart(b))
        /\ WF_vars(LocaleDeadline(b))
        /\ WF_vars(LocaleSelect(b))
        /\ WF_vars(GenReturn(b))
        /\ WF_vars(CallReport(b))
    /\ WF_vars(CtxTimePasses)

\* =========================================================================
\* The queue of length 2 guarded by a sync.Cond: main and removeFromQueue
\* =========================================================================
QueueLimit == 2     \* for len(queue) == 2 { c.Wait() }
Removers == 1..NumQueued

QueueAt(at, removers) ==
    /\ condL = "free"
    /\ queueLen = 0
    /\ queueI = 0
    /\ queuePc = at
    /\ removerPc = [r \in Removers |-> removers]
    /\ fullAtAdd = FALSE

QueueInit == QueueAt("lock", "unborn")
QueueIdle == QueueAt("none", "none")

\* c.L.Lock() at the top of main's loop, and again when c.Wait() returns
QueueLock ==
    /\ queuePc \in {"lock", "signalled"}
    /\ condL = "free"
    /\ condL' = "main"
    /\ queuePc' = "check"
    /\ UNCHANGED <<queueLen, queueI, removerPc, fullAtAdd>>
    /\ UNCHANGED notQueue

QueueNeverFull == FALSE

QueueIsFull == queueLen = QueueLimit

\* for len(queue) == 2 { c.Wait() }: Wait unlocks c.L and suspends main
QueueCheck ==
    /\ queuePc = "check"
    /\ IF QueueIsFull
       THEN queuePc' = "waiting" /\ condL' = "free"
       ELSE queuePc' = "add" /\ UNCHANGED condL
    /\ UNCHANGED <<queueLen, queueI, removerPc, fullAtAdd>>
    /\ UNCHANGED notQueue

\* queue = append(queue, struct{}{}); go removeFromQueue(1*time.Second)
QueueAdd ==
    /\ queuePc = "add"
    /\ queueLen' = queueLen + 1
    /\ fullAtAdd' = (fullAtAdd \/ queueLen >= QueueLimit)
    /\ removerPc' = [removerPc EXCEPT ![queueI + 1] = "sleep"]
    /\ queuePc' = "unlock"
    /\ UNCHANGED <<condL, queueI>>
    /\ UNCHANGED notQueue

\* c.L.Unlock() and the next round of the loop
QueueUnlock ==
    /\ queuePc = "unlock"
    /\ condL' = "free"
    /\ queueI' = queueI + 1
    /\ queuePc' = IF queueI + 1 < NumQueued THEN "lock" ELSE "finished"
    /\ UNCHANGED <<queueLen, removerPc, fullAtAdd>>
    /\ UNCHANGED notQueue

\* removeFromQueue: time.Sleep(delay); c.L.Lock()
RemoverLock(r) ==
    /\ removerPc[r] = "sleep"
    /\ condL = "free"
    /\ condL' = "remover"
    /\ removerPc' = [removerPc EXCEPT ![r] = "locked"]
    /\ UNCHANGED <<queueLen, queueI, queuePc, fullAtAdd>>
    /\ UNCHANGED notQueue

\* queue = queue[1:]; c.L.Unlock()
RemoverRemove(r) ==
    /\ removerPc[r] = "locked"
    /\ queueLen' = queueLen - 1
    /\ condL' = "free"
    /\ removerPc' = [removerPc EXCEPT ![r] = "signal"]
    /\ UNCHANGED <<queueI, queuePc, fullAtAdd>>
    /\ UNCHANGED notQueue

\* c.Signal() wakes main when it is suspended in c.Wait()
RemoverSignal(r) ==
    /\ removerPc[r] = "signal"
    /\ removerPc' = [removerPc EXCEPT ![r] = "done"]
    /\ queuePc' = IF queuePc = "waiting" THEN "signalled" ELSE queuePc
    /\ UNCHANGED <<condL, queueLen, queueI, fullAtAdd>>
    /\ UNCHANGED notQueue

NextQueue ==
    \/ QueueLock
    \/ QueueCheck
    \/ QueueAdd
    \/ QueueUnlock
    \/ \E r \in Removers :
        \/ RemoverLock(r)
        \/ RemoverRemove(r)
        \/ RemoverSignal(r)

QueueFairness ==
    /\ WF_vars(QueueLock)
    /\ WF_vars(QueueCheck)
    /\ WF_vars(QueueAdd)
    /\ WF_vars(QueueUnlock)
    /\ \A r \in Removers :
        /\ SF_vars(RemoverLock(r))
        /\ WF_vars(RemoverRemove(r))
        /\ WF_vars(RemoverSignal(r))

\* =========================================================================
\* The Button example: subscribe, Broadcast and clickRegistered.Wait()
\* =========================================================================
Subscribers == 1..NumSubscribers

ButtonAt(at, handlers, registered) ==
    /\ clickedL = FALSE
    /\ subscriberPc = [h \in Subscribers |-> handlers]
    /\ buttonPc = at
    /\ subscribed = 0
    /\ goroutineRunning = 0
    /\ clickRegistered = registered

ButtonInit == ButtonAt("subscribe", "unborn", NumSubscribers)
ButtonIdle == ButtonAt("none", "none", 0)

\* subscribe: goroutineRunning.Add(1); go func() { ... }()
Subscribe ==
    /\ buttonPc = "subscribe"
    /\ goroutineRunning' = 1
    /\ subscriberPc' = [subscriberPc EXCEPT ![subscribed + 1] = "running"]
    /\ buttonPc' = "confirm"
    /\ UNCHANGED <<clickedL, subscribed, clickRegistered>>
    /\ UNCHANGED notButton

\* the goroutine of the handler: goroutineRunning.Done()
SubscriberRunning(h) ==
    /\ subscriberPc[h] = "running"
    /\ goroutineRunning' = goroutineRunning - 1
    /\ subscriberPc' = [subscriberPc EXCEPT ![h] = "lock"]
    /\ UNCHANGED <<clickedL, buttonPc, subscribed, clickRegistered>>
    /\ UNCHANGED notButton

\* subscribe: goroutineRunning.Wait() returns and so does subscribe
SubscribeReturns ==
    /\ buttonPc = "confirm"
    /\ goroutineRunning = 0
    /\ subscribed' = subscribed + 1
    /\ buttonPc' = IF subscribed + 1 < NumSubscribers THEN "subscribe" ELSE "broadcast"
    /\ UNCHANGED <<clickedL, subscriberPc, goroutineRunning, clickRegistered>>
    /\ UNCHANGED notButton

\* c.L.Lock(), and c.Wait() locking c.L again after it was woken
SubscriberLock(h) ==
    /\ subscriberPc[h] \in {"lock", "woken"}
    /\ ~clickedL
    /\ clickedL' = TRUE
    /\ subscriberPc' = [subscriberPc EXCEPT ![h] = IF subscriberPc[h] = "lock" THEN "wait" ELSE "fn"]
    /\ UNCHANGED <<buttonPc, subscribed, goroutineRunning, clickRegistered>>
    /\ UNCHANGED notButton

\* c.Wait() unlocks c.L and suspends the goroutine
SubscriberWait(h) ==
    /\ subscriberPc[h] = "wait"
    /\ clickedL' = FALSE
    /\ subscriberPc' = [subscriberPc EXCEPT ![h] = "waiting"]
    /\ UNCHANGED <<buttonPc, subscribed, goroutineRunning, clickRegistered>>
    /\ UNCHANGED notButton

\* button.Clicked.Broadcast() wakes the goroutines suspended in Wait
Broadcast ==
    /\ buttonPc = "broadcast"
    /\ subscriberPc' = [h \in Subscribers |->
            IF subscriberPc[h] = "waiting" THEN "woken" ELSE subscriberPc[h]]
    /\ buttonPc' = "wait"
    /\ UNCHANGED <<clickedL, subscribed, goroutineRunning, clickRegistered>>
    /\ UNCHANGED notButton

\* fn(): clickRegistered.Done(); defer c.L.Unlock()
SubscriberFn(h) ==
    /\ subscriberPc[h] = "fn"
    /\ clickRegistered' = clickRegistered - 1
    /\ clickedL' = FALSE
    /\ subscriberPc' = [subscriberPc EXCEPT ![h] = "done"]
    /\ UNCHANGED <<buttonPc, subscribed, goroutineRunning>>
    /\ UNCHANGED notButton

\* clickRegistered.Wait()
ClickRegisteredWait ==
    /\ buttonPc = "wait"
    /\ clickRegistered = 0
    /\ buttonPc' = "finished"
    /\ UNCHANGED <<clickedL, subscriberPc, subscribed, goroutineRunning, clickRegistered>>
    /\ UNCHANGED notButton

NextButton ==
    \/ Subscribe
    \/ SubscribeReturns
    \/ Broadcast
    \/ ClickRegisteredWait
    \/ \E h \in Subscribers :
        \/ SubscriberRunning(h)
        \/ SubscriberLock(h)
        \/ SubscriberWait(h)
        \/ SubscriberFn(h)

ButtonFairness ==
    /\ WF_vars(Subscribe)
    /\ WF_vars(SubscribeReturns)
    /\ WF_vars(Broadcast)
    /\ WF_vars(ClickRegisteredWait)
    /\ \A h \in Subscribers :
        /\ WF_vars(SubscriberRunning(h))
        /\ SF_vars(SubscriberLock(h))
        /\ WF_vars(SubscriberWait(h))
        /\ WF_vars(SubscriberFn(h))

\* =========================================================================
\* The buffered channel example: intStream := make(chan int, 4)
\* =========================================================================
StreamCapacity == 4   \* make(chan int, 4)
NumSends == 5         \* for i := 0; i < 5; i++

BufferedAt(producer, main) ==
    /\ bufStream = <<>>
    /\ bufClosed = FALSE
    /\ producerPc = producer
    /\ producerI = 0
    /\ rangePc = main
    /\ rangeVal = 0
    /\ pulled = 0
    /\ stdoutBuff = <<>>

BufferedInit == BufferedAt("loop", "range")
BufferedIdle == BufferedAt("none", "none")

\* for i := 0; i < 5; i++ { fmt.Fprintf(&stdoutBuff, "Sending: %d\n", i)
ProducerSending ==
    /\ producerPc = "loop"
    /\ producerI < NumSends
    /\ stdoutBuff' = Append(stdoutBuff, <<"Sending", producerI>>)
    /\ producerPc' = "send"
    /\ UNCHANGED <<bufStream, bufClosed, producerI, rangePc, rangeVal, pulled>>
    /\ UNCHANGED notBuffered

\* a send on a buffered channel goes on while the buffer has room
HasRoom == Len(bufStream) < StreamCapacity

\* intStream <- i
ProducerPlaces ==
    /\ producerPc = "send"
    /\ HasRoom
    /\ bufStream' = Append(bufStream, producerI)
    /\ producerI' = producerI + 1
    /\ producerPc' = "loop"
    /\ UNCHANGED <<bufClosed, rangePc, rangeVal, pulled, stdoutBuff>>
    /\ UNCHANGED notBuffered

\* defer fmt.Fprintln(&stdoutBuff, "Producer Done."); defer close(intStream)
ProducerExits ==
    /\ producerPc = "loop"
    /\ producerI = NumSends
    /\ stdoutBuff' = Append(stdoutBuff, <<"Producer Done.", 0>>)
    /\ bufClosed' = TRUE
    /\ producerPc' = "done"
    /\ UNCHANGED <<bufStream, producerI, rangePc, rangeVal, pulled>>
    /\ UNCHANGED notBuffered

\* for integer := range intStream
RangePulls ==
    /\ rangePc = "range"
    /\ bufStream # <<>>
    /\ rangeVal' = Head(bufStream)
    /\ bufStream' = Tail(bufStream)
    /\ pulled' = pulled + 1
    /\ rangePc' = "print"
    /\ UNCHANGED <<bufClosed, producerPc, producerI, stdoutBuff>>
    /\ UNCHANGED notBuffered

\* fmt.Fprintf(&stdoutBuff, "Received %v.\n", integer)
RangeReceived ==
    /\ rangePc = "print"
    /\ stdoutBuff' = Append(stdoutBuff, <<"Received", rangeVal>>)
    /\ rangePc' = "range"
    /\ UNCHANGED <<bufStream, bufClosed, producerPc, producerI, rangeVal, pulled>>
    /\ UNCHANGED notBuffered

\* the range ends when intStream is closed and empty
RangeEnds ==
    /\ rangePc = "range"
    /\ bufStream = <<>>
    /\ bufClosed
    /\ rangePc' = "finished"
    /\ UNCHANGED <<bufStream, bufClosed, producerPc, producerI, rangeVal, pulled, stdoutBuff>>
    /\ UNCHANGED notBuffered

NextBuffered ==
    \/ ProducerSending
    \/ ProducerPlaces
    \/ ProducerExits
    \/ RangePulls
    \/ RangeReceived
    \/ RangeEnds

BufferedFairness ==
    /\ WF_vars(ProducerSending)
    /\ WF_vars(ProducerPlaces)
    /\ WF_vars(ProducerExits)
    /\ WF_vars(RangePulls)
    /\ WF_vars(RangeReceived)
    /\ WF_vars(RangeEnds)

\* =========================================================================
\* printSum(v1, v2) called twice by main, each call on its own goroutine
\* =========================================================================
SumCalls == 1..2
Shared == {"a", "b"}
ArgPairs == {<<"a", "b">>, <<"b", "a">>}

SumInit ==
    /\ sumArgs \in [SumCalls -> ArgPairs]
    /\ valueOf \in [Shared -> 0..MaxVal]
    /\ muHolder = [v \in Shared |-> 0]
    /\ sumPc = [g \in SumCalls |-> "lock1"]
    /\ sumPrinted = [g \in SumCalls |-> -1]
    /\ sumWg = 2
    /\ sumMain = "wait"

SumIdle ==
    /\ sumArgs = [g \in SumCalls |-> <<"a", "b">>]
    /\ valueOf = [v \in Shared |-> 0]
    /\ muHolder = [v \in Shared |-> 0]
    /\ sumPc = [g \in SumCalls |-> "none"]
    /\ sumPrinted = [g \in SumCalls |-> -1]
    /\ sumWg = 0
    /\ sumMain = "none"

V1(g) == sumArgs[g][1]
V2(g) == sumArgs[g][2]

MuLockBarges(v) == TRUE

\* mu.Lock() goes on when no call holds the mutex
MuLock(v) == muHolder[v] = 0

\* v1.mu.Lock()
SumLockFirst(g) ==
    /\ sumPc[g] = "lock1"
    /\ MuLock(V1(g))
    /\ muHolder' = [muHolder EXCEPT ![V1(g)] = g]
    /\ sumPc' = [sumPc EXCEPT ![g] = "sleep"]
    /\ UNCHANGED <<sumArgs, valueOf, sumPrinted, sumWg, sumMain>>
    /\ UNCHANGED notSum

\* time.Sleep(2 * time.Second)
SumSleep(g) ==
    /\ sumPc[g] = "sleep"
    /\ sumPc' = [sumPc EXCEPT ![g] = "lock2"]
    /\ UNCHANGED <<sumArgs, valueOf, muHolder, sumPrinted, sumWg, sumMain>>
    /\ UNCHANGED notSum

\* v2.mu.Lock()
SumLockSecond(g) ==
    /\ sumPc[g] = "lock2"
    /\ MuLock(V2(g))
    /\ muHolder' = [muHolder EXCEPT ![V2(g)] = g]
    /\ sumPc' = [sumPc EXCEPT ![g] = "print"]
    /\ UNCHANGED <<sumArgs, valueOf, sumPrinted, sumWg, sumMain>>
    /\ UNCHANGED notSum

\* fmt.Printf("sum=%v\n", v1.value+v2.value)
SumPrint(g) ==
    /\ sumPc[g] = "print"
    /\ sumPrinted' = [sumPrinted EXCEPT ![g] = valueOf[V1(g)] + valueOf[V2(g)]]
    /\ sumPc' = [sumPc EXCEPT ![g] = "return"]
    /\ UNCHANGED <<sumArgs, valueOf, muHolder, sumWg, sumMain>>
    /\ UNCHANGED notSum

\* the deferred calls: v2.mu.Unlock(), v1.mu.Unlock(), wg.Done()
SumReturn(g) ==
    /\ sumPc[g] = "return"
    /\ muHolder' = [v \in Shared |-> IF muHolder[v] = g THEN 0 ELSE muHolder[v]]
    /\ sumWg' = sumWg - 1
    /\ sumPc' = [sumPc EXCEPT ![g] = "done"]
    /\ UNCHANGED <<sumArgs, valueOf, sumPrinted, sumMain>>
    /\ UNCHANGED notSum

\* wg.Wait()
SumMainWait ==
    /\ sumMain = "wait"
    /\ sumWg = 0
    /\ sumMain' = "finished"
    /\ UNCHANGED <<sumArgs, valueOf, muHolder, sumPc, sumPrinted, sumWg>>
    /\ UNCHANGED notSum

NextSum ==
    \/ SumMainWait
    \/ \E g \in SumCalls :
        \/ SumLockFirst(g)
        \/ SumSleep(g)
        \/ SumLockSecond(g)
        \/ SumPrint(g)
        \/ SumReturn(g)

SumFairness ==
    /\ WF_vars(SumMainWait)
    /\ \A g \in SumCalls :
        /\ SF_vars(SumLockFirst(g))
        /\ WF_vars(SumSleep(g))
        /\ SF_vars(SumLockSecond(g))
        /\ WF_vars(SumPrint(g))
        /\ WF_vars(SumReturn(g))

\* each call holds its first mutex and waits for the one the other holds
GearsLocked ==
    /\ \A g \in SumCalls : sumPc[g] = "lock2" /\ muHolder[V1(g)] = g
    /\ V1(1) = V2(2)
    /\ V2(1) = V1(2)

\* =========================================================================
\* The hallway demo: takeStep, tryDir, walk and main
\* =========================================================================
WalkRounds == 5     \* for i := 0; i < 5; i++
Walkers == {"Alice", "Barbara"}
Dirs == {"left", "right"}

HallAt(at, people, main) ==
    /\ dirCount = [d \in Dirs |-> 0]
    /\ walkPc = [w \in Walkers |-> at]
    /\ walkDir = [w \in Walkers |-> "left"]
    /\ walkI = [w \in Walkers |-> 0]
    /\ walkOut = [w \in Walkers |-> <<>>]
    /\ succeeded = [w \in Walkers |-> "none"]
    /\ peopleInHallway = people
    /\ hallMain = main

HallInit == HallAt("add", 2, "wait")
HallIdle == HallAt("none", 0, "none")

\* tryDir: fmt.Fprintf(out, " %v", dirName); atomic.AddInt32(dir, 1); and the
\* walker suspends in the cadence.Wait() of takeStep
TryDirAdd(w) ==
    /\ walkPc[w] = "add"
    /\ walkOut' = [walkOut EXCEPT ![w] = Append(@, walkDir[w])]
    /\ dirCount' = [dirCount EXCEPT ![walkDir[w]] = @ + 1]
    /\ walkPc' = [walkPc EXCEPT ![w] = "step1"]
    /\ UNCHANGED <<walkDir, walkI, succeeded, peopleInHallway, hallMain>>
    /\ UNCHANGED notHall

\* main's goroutine: for range time.Tick(1 * time.Millisecond) {
\* cadence.Broadcast() } wakes the walkers suspended in takeStep
CadenceBroadcast ==
    /\ hallMain = "wait"
    /\ walkPc' = [w \in Walkers |->
            CASE walkPc[w] = "step1" -> "load"
              [] walkPc[w] = "step2" -> "sub"
              [] OTHER -> walkPc[w]]
    /\ UNCHANGED <<dirCount, walkDir, walkI, walkOut, succeeded, peopleInHallway, hallMain>>
    /\ UNCHANGED notHall

ReadsSome(w) == dirCount[walkDir[w]] >= 1

\* if atomic.LoadInt32(dir) == 1
ReadsOne(w) == dirCount[walkDir[w]] = 1

\* tryDir after the first takeStep: success, or the second takeStep
TryDirLoad(w) ==
    /\ walkPc[w] = "load"
    /\ IF ReadsOne(w)
       THEN /\ succeeded' = [succeeded EXCEPT ![w] = walkDir[w]]
            /\ walkOut' = [walkOut EXCEPT ![w] = Append(@, "Success!")]
            /\ walkPc' = [walkPc EXCEPT ![w] = "return"]
       ELSE /\ walkPc' = [walkPc EXCEPT ![w] = "step2"]
            /\ UNCHANGED <<succeeded, walkOut>>
    /\ UNCHANGED <<dirCount, walkDir, walkI, peopleInHallway, hallMain>>
    /\ UNCHANGED notHall

CountKept(w) == dirCount

\* atomic.AddInt32(dir, -1)
CountAfterFailure(w) == [dirCount EXCEPT ![walkDir[w]] = @ - 1]

\* tryDir returns false: walk tries the other direction, or the next round,
\* or tosses her hands up after the last one
TryDirSub(w) ==
    /\ walkPc[w] = "sub"
    /\ dirCount' = CountAfterFailure(w)
    /\ IF walkDir[w] = "left"
       THEN /\ walkDir' = [walkDir EXCEPT ![w] = "right"]
            /\ walkPc' = [walkPc EXCEPT ![w] = "add"]
            /\ UNCHANGED <<walkI, walkOut>>
       ELSE /\ walkDir' = [walkDir EXCEPT ![w] = "left"]
            /\ walkI' = [walkI EXCEPT ![w] = @ + 1]
            /\ IF walkI[w] + 1 < WalkRounds
               THEN walkPc' = [walkPc EXCEPT ![w] = "add"] /\ UNCHANGED walkOut
               ELSE /\ walkPc' = [walkPc EXCEPT ![w] = "return"]
                    /\ walkOut' = [walkOut EXCEPT ![w] = Append(@, "exasperation")]
    /\ UNCHANGED <<succeeded, peopleInHallway, hallMain>>
    /\ UNCHANGED notHall

\* walk returns: defer walking.Done()
WalkReturn(w) ==
    /\ walkPc[w] = "return"
    /\ peopleInHallway' = peopleInHallway - 1
    /\ walkPc' = [walkPc EXCEPT ![w] = "done"]
    /\ UNCHANGED <<dirCount, walkDir, walkI, walkOut, succeeded, hallMain>>
    /\ UNCHANGED notHall

\* peopleInHallway.Wait()
HallMainWait ==
    /\ hallMain = "wait"
    /\ peopleInHallway = 0
    /\ hallMain' = "finished"
    /\ UNCHANGED <<dirCount, walkPc, walkDir, walkI, walkOut, succeeded, peopleInHallway>>
    /\ UNCHANGED notHall

WalkerStep ==
    \/ HallMainWait
    \/ \E w \in Walkers :
        \/ TryDirAdd(w)
        \/ TryDirLoad(w)
        \/ TryDirSub(w)
        \/ WalkReturn(w)

NextHall == WalkerStep \/ CadenceBroadcast

\* the walkers move at the same cadence: each has reached its takeStep, or
\* returned, when the Broadcast of a tick comes
SameCadence == CadenceBroadcast /\ ~ENABLED WalkerStep

NextInStep == WalkerStep \/ SameCadence

HallFairness ==
    /\ WF_vars(HallMainWait)
    /\ WF_vars(CadenceBroadcast)
    /\ WF_vars(SameCadence)
    /\ \A w \in Walkers :
        /\ WF_vars(TryDirAdd(w))
        /\ WF_vars(TryDirLoad(w))
        /\ WF_vars(TryDirSub(w))
        /\ WF_vars(WalkReturn(w))

\* =========================================================================
\* Specifications
\* =========================================================================
InitPipe == PipeInit /\ PrimeInit /\ FanIdle /\ OrIdle /\ StewardIdle /\ OrDoneIdle /\ TeeIdle /\ TakeNIdle /\ BridgeIdle /\ LoopIdle /\ FaultyIdle /\ ReplIdle /\ CtxIdle /\ QueueIdle /\ ButtonIdle /\ BufferedIdle /\ SumIdle /\ HallIdle
SpecPipe == InitPipe /\ [][NextPipe]_vars
FairSpecPipe == SpecPipe /\ PipeFairness

\* DoWork / DoWork1 feeding their consumer directly, as in the tests; the
\* consumer keeps receiving the results.
InitBeat == InitPipe /\ HasHeartbeat /\ nStages = 0
NextBeat ==
    \/ CloseDone
    \/ Sleep
    \/ SourceLoop
    \/ SelectDone(0)
    \/ Send(0)
    \/ ConsumerClosed
    \/ CloseHeartbeat
    \/ Tick
    \/ PulseHeartbeat
    \/ ReceiveHeartbeat
    \/ ReceiveHeartbeatClosed
SpecBeat == InitBeat /\ [][NextBeat]_vars
FairSpecBeat ==
    /\ SpecBeat
    /\ WF_vars(Sleep)
    /\ WF_vars(SourceLoop)
    /\ WF_vars(CloseHeartbeat)
    /\ SF_vars(SelectDone(0))
    /\ WF_vars(Send(0))
    /\ WF_vars(ConsumerClosed)

InitWatch == WatchInit /\ PrimeInit /\ FanIdle /\ OrIdle /\ StewardIdle /\ OrDoneIdle /\ TeeIdle /\ TakeNIdle /\ BridgeIdle /\ LoopIdle /\ FaultyIdle /\ ReplIdle /\ CtxIdle /\ QueueIdle /\ ButtonIdle /\ BufferedIdle /\ SumIdle /\ HallIdle
SpecWatch == InitWatch /\ [][NextWatch]_vars
FairSpecWatch == SpecWatch /\ WatchFairness

InitOrDone == OrDoneInit /\ PipeIdle /\ PrimeInit /\ FanIdle /\ OrIdle /\ StewardIdle /\ TeeIdle /\ TakeNIdle /\ BridgeIdle /\ LoopIdle /\ FaultyIdle /\ ReplIdle /\ CtxIdle /\ QueueIdle /\ ButtonIdle /\ BufferedIdle /\ SumIdle /\ HallIdle
SpecOrDone == InitOrDone /\ [][NextOrDone]_vars
FairSpecOrDone == SpecOrDone /\ OrDoneFairness

InitTee == TeeInit /\ OrDoneInit /\ PipeIdle /\ PrimeInit /\ FanIdle /\ OrIdle /\ StewardIdle /\ TakeNIdle /\ BridgeIdle /\ LoopIdle /\ FaultyIdle /\ ReplIdle /\ CtxIdle /\ QueueIdle /\ ButtonIdle /\ BufferedIdle /\ SumIdle /\ HallIdle
SpecTee == InitTee /\ [][NextTee]_vars
FairSpecTee == SpecTee /\ TeeFairness

InitTakeN == TakeNInit /\ PipeIdle /\ PrimeInit /\ FanIdle /\ OrIdle /\ StewardIdle /\ OrDoneIdle /\ TeeIdle /\ BridgeIdle /\ LoopIdle /\ FaultyIdle /\ ReplIdle /\ CtxIdle /\ QueueIdle /\ ButtonIdle /\ BufferedIdle /\ SumIdle /\ HallIdle
SpecTakeN == InitTakeN /\ [][NextTakeN]_vars
FairSpecTakeN == SpecTakeN /\ TakeNFairness
SpecTakeGen == InitTakeN /\ [][NextTakeGen]_vars
FairSpecTakeGen == SpecTakeGen /\ TakeGenFairness

InitBridge == BridgeInit /\ PipeIdle /\ PrimeInit /\ FanIdle /\ OrIdle /\ StewardIdle /\ TeeIdle /\ TakeNIdle /\ LoopIdle /\ FaultyIdle /\ ReplIdle /\ CtxIdle /\ QueueIdle /\ ButtonIdle /\ BufferedIdle /\ SumIdle /\ HallIdle
SpecBridge == InitBridge /\ [][NextBridge]_vars
FairSpecBridge == SpecBridge /\ BridgeFairness

InitWorkStart == WorkStartInit /\ PrimeInit /\ FanIdle /\ OrIdle /\ StewardIdle /\ OrDoneIdle /\ TeeIdle /\ TakeNIdle /\ BridgeIdle /\ FaultyIdle /\ ReplIdle /\ CtxIdle /\ QueueIdle /\ ButtonIdle /\ BufferedIdle /\ SumIdle /\ HallIdle
SpecWorkStart == InitWorkStart /\ [][NextWorkStart]_vars
FairSpecWorkStart == SpecWorkStart /\ WorkStartFairness

InitFaulty == FaultyInit /\ PipeIdle /\ PrimeInit /\ FanIdle /\ OrIdle /\ StewardIdle /\ OrDoneIdle /\ TeeIdle /\ TakeNIdle /\ BridgeIdle /\ LoopIdle /\ ReplIdle /\ CtxIdle /\ QueueIdle /\ ButtonIdle /\ BufferedIdle /\ SumIdle /\ HallIdle
SpecFaulty == InitFaulty /\ [][NextFaulty]_vars
FairSpecFaulty == SpecFaulty /\ FaultyFairness

InitRepl == ReplInit /\ PipeIdle /\ PrimeInit /\ FanIdle /\ OrIdle /\ StewardIdle /\ OrDoneIdle /\ TeeIdle /\ TakeNIdle /\ BridgeIdle /\ LoopIdle /\ FaultyIdle /\ CtxIdle /\ QueueIdle /\ ButtonIdle /\ BufferedIdle /\ SumIdle /\ HallIdle
SpecRepl == InitRepl /\ [][NextRepl]_vars
FairSpecRepl == SpecRepl /\ ReplFairness

InitCtx == CtxInit /\ PrimeInit /\ PipeIdle /\ FanIdle /\ OrIdle /\ StewardIdle /\ OrDoneIdle /\ TeeIdle /\ TakeNIdle /\ BridgeIdle /\ LoopIdle /\ FaultyIdle /\ ReplIdle /\ QueueIdle /\ ButtonIdle /\ BufferedIdle /\ SumIdle /\ HallIdle
SpecCtx == InitCtx /\ [][NextCtx]_vars
FairSpecCtx == SpecCtx /\ CtxFairness

InitQueue == QueueInit /\ PrimeInit /\ PipeIdle /\ FanIdle /\ OrIdle /\ StewardIdle /\ OrDoneIdle /\ TeeIdle /\ TakeNIdle /\ BridgeIdle /\ LoopIdle /\ FaultyIdle /\ ReplIdle /\ CtxIdle /\ ButtonIdle /\ BufferedIdle /\ SumIdle /\ HallIdle
SpecQueue == InitQueue /\ [][NextQueue]_vars
FairSpecQueue == SpecQueue /\ QueueFairness

InitButton == ButtonInit /\ PrimeInit /\ PipeIdle /\ FanIdle /\ OrIdle /\ StewardIdle /\ OrDoneIdle /\ TeeIdle /\ TakeNIdle /\ BridgeIdle /\ LoopIdle /\ FaultyIdle /\ ReplIdle /\ CtxIdle /\ QueueIdle /\ BufferedIdle /\ SumIdle /\ HallIdle
SpecButton == InitButton /\ [][NextButton]_vars
FairSpecButton == SpecButton /\ ButtonFairness

InitBuffered == BufferedInit /\ PrimeInit /\ PipeIdle /\ FanIdle /\ OrIdle /\ StewardIdle /\ OrDoneIdle /\ TeeIdle /\ TakeNIdle /\ BridgeIdle /\ LoopIdle /\ FaultyIdle /\ ReplIdle /\ CtxIdle /\ QueueIdle /\ ButtonIdle /\ SumIdle /\ HallIdle
SpecBuffered == InitBuffered /\ [][NextBuffered]_vars
FairSpecBuffered == SpecBuffered /\ BufferedFairness

InitSum == SumInit /\ PrimeInit /\ PipeIdle /\ FanIdle /\ OrIdle /\ StewardIdle /\ OrDoneIdle /\ TeeIdle /\ TakeNIdle /\ BridgeIdle /\ LoopIdle /\ FaultyIdle /\ ReplIdle /\ CtxIdle /\ QueueIdle /\ ButtonIdle /\ BufferedIdle /\ HallIdle
SpecSum == InitSum /\ [][NextSum]_vars
FairSpecSum == SpecSum /\ SumFairness

InitHall == HallInit /\ PrimeInit /\ PipeIdle /\ FanIdle /\ OrIdle /\ StewardIdle /\ OrDoneIdle /\ TeeIdle /\ TakeNIdle /\ BridgeIdle /\ LoopIdle /\ FaultyIdle /\ ReplIdle /\ CtxIdle /\ QueueIdle /\ ButtonIdle /\ BufferedIdle /\ SumIdle
SpecHall == InitHall /\ [][NextHall]_vars
FairSpecHall == SpecHall /\ HallFairness
SpecInStep == InitHall /\ [][NextInStep]_vars
FairSpecInStep == SpecInStep /\ HallFairness

InitClosing == ClosingInit /\ PipeIdle /\ PrimeInit /\ FanIdle /\ OrIdle /\ OrDoneIdle /\ TeeIdle /\ TakeNIdle /\ BridgeIdle /\ LoopIdle /\ FaultyIdle /\ ReplIdle /\ CtxIdle /\ QueueIdle /\ ButtonIdle /\ BufferedIdle /\ SumIdle /\ HallIdle
SpecClosing == InitClosing /\ [][NextInTime]_vars
FairSpecClosing == SpecClosing /\ StewardFairness

InitPrime == PrimeInit /\ PipeIdle /\ FanIdle /\ OrIdle /\ StewardIdle /\ OrDoneIdle /\ TeeIdle /\ TakeNIdle /\ BridgeIdle /\ LoopIdle /\ FaultyIdle /\ ReplIdle /\ CtxIdle /\ QueueIdle /\ ButtonIdle /\ BufferedIdle /\ SumIdle /\ HallIdle
SpecPrime == InitPrime /\ [][NextPrime]_vars
FairSpecPrime == SpecPrime /\ PrimeFairness

InitFan == FanInit /\ PipeIdle /\ PrimeInit /\ OrIdle /\ StewardIdle /\ OrDoneIdle /\ TeeIdle /\ TakeNIdle /\ BridgeIdle /\ LoopIdle /\ FaultyIdle /\ ReplIdle /\ CtxIdle /\ QueueIdle /\ ButtonIdle /\ BufferedIdle /\ SumIdle /\ HallIdle
SpecFan == InitFan /\ [][NextFan]_vars
FairSpecFan == SpecFan /\ FanFairness

InitOr == OrInit /\ PipeIdle /\ PrimeInit /\ FanIdle /\ StewardIdle /\ OrDoneIdle /\ TeeIdle /\ TakeNIdle /\ BridgeIdle /\ LoopIdle /\ FaultyIdle /\ ReplIdle /\ CtxIdle /\ QueueIdle /\ ButtonIdle /\ BufferedIdle /\ SumIdle /\ HallIdle
SpecOr == InitOr /\ [][NextOr]_vars
FairSpecOr == SpecOr /\ OrFairness

InitSteward == StewardInit /\ PipeIdle /\ PrimeInit /\ FanIdle /\ OrIdle /\ OrDoneIdle /\ TeeIdle /\ TakeNIdle /\ BridgeIdle /\ LoopIdle /\ FaultyIdle /\ ReplIdle /\ CtxIdle /\ QueueIdle /\ ButtonIdle /\ BufferedIdle /\ SumIdle /\ HallIdle
SpecSteward == InitSteward /\ [][NextSteward]_vars
FairSpecSteward == SpecSteward /\ StewardFairness

\* =========================================================================
\* Properties
\* =========================================================================

\* C1: once done is closed, every stage goroutine of the pipeline (source and
\* chained stages) eventually returns with its output channel closed, whether
\* or not the consumer ever receives again.
CancellationLiveness == done ~> AllStagesReturned

\* C2: in the prime-finding pipeline, once main has taken its num values and
\* done is closed, every stage goroutine terminates (or the program has ended).
PrimePipelineTerminates == (primeDone /\ primes = NumPrimes) ~> PrimeStagesTerminated

\* C6: with done open, the consumer ranging over DoWork's result stream has
\* received a prefix of nums, and all of nums, in order, once it sees the
\* stream closed.
DoWorkPreservesOrder ==
    (srcKind = "DoWork" /\ nStages = 0 /\ ~done) =>
        /\ IsPrefix(received, nums)
        /\ pc[Consumer] = "done" => received = nums

DoWorkAllReceived ==
    /\ srcKind = "DoWork" /\ nStages = 0 /\ ~done
    /\ pc[Consumer] = "done"
    /\ Len(nums) >= 2 /\ nums[1] # nums[2]
    /\ received = nums

\* C7: every stage closes each channel it created exactly once when it
\* returns, on completion of its input and on cancellation alike, and never
\* sends on it afterwards; DoWork and DoWork1 close both the result channel
\* and the heartbeat channel.
StagesCloseOnce ==
    /\ \A p \in 0..nStages :
          /\ closes[p] <= 1
          /\ closes[p] = 1 <=> pc[p] \in {"closing", "returned"}
    /\ heartbeatCloses <= 1
    /\ HasHeartbeat => (heartbeatCloses = 1 <=> pc[0] = "returned")
    /\ ~sendOnClosed

\* DoWork1 cancelled before it had sent all of nums, behind it a stage that
\* returned: both of DoWork1's channels and the stage's channel are closed.
CancelledStagesClosed ==
    /\ srcKind = "DoWork1" /\ done /\ nStages >= 1
    /\ idx <= Len(nums)
    /\ pc[0] = "returned" /\ pc[1] = "returned"
    /\ closes[0] = 1 /\ closes[1] = 1 /\ heartbeatCloses = 1
\* C3: with done open, the consumer of the merged channel has received items
\* of the inputs, none twice, and once the merged channel is closed it has
\* received every item the k inputs carried.
FanInComplete ==
    ~fanDone =>
        /\ NoDuplicates(merged)
        /\ Range(merged) \subseteq GivenItems
        /\ (mergedCloses > 0 \/ fanConsumer = "done") => Range(merged) = GivenItems

FanInAllReceived ==
    /\ ~fanDone /\ nInputs >= 2
    /\ \A j \in Inputs : inCount[j] >= 1
    /\ fanConsumer = "done"
    /\ Len(merged) = Cardinality(GivenItems)

\* C4: the merged channel is closed at most once, only by the closer and only
\* when every multiplex has returned and the WaitGroup is at zero; no
\* multiplex sends on it after the close.
FanInClosesAfterWorkers ==
    /\ mergedCloses <= 1
    /\ mergedCloses = 1 <=> closerPc = "returned"
    /\ mergedCloses = 1 => AllMultiplexReturned /\ wg = 0
    /\ ~fanSendOnClosed

FanInClosedAfterCancel ==
    /\ nInputs >= 2 /\ fanDone
    /\ mergedCloses = 1
    /\ Len(merged) >= 1
    /\ \E j \in Inputs : inSent[j] > 0 /\ mval[j] \notin Range(merged)

\* C5: after done is closed every multiplex returns, whatever its input
\* channel does, and the merged channel is closed.
FanInCancellation == fanDone ~> (AllMultiplexReturned /\ mergedCloses = 1)

\* C8: for two or more inputs, the channel or returns is closed only if some
\* input channel is closed; the same for the channel of the two-channel or.
OrSafety ==
    orN >= 2 =>
        /\ IsClosed(OrOut) => \E i \in 1..orN : sigClosed[i]
        /\ or2Closes > 0 => sigClosed[1] \/ sigClosed[2]

OrFiredDeep ==
    /\ orN >= 4
    /\ IsClosed(OrOut) /\ or2Closes > 0
    /\ sigClosed[1] /\ \A i \in 2..orN : ~sigClosed[i]

\* C9: once any input channel is closed, at whatever position, the channel or
\* returns is eventually closed.
OrLiveness == (\E i \in 1..orN : sigClosed[i]) ~> IsClosed(OrOut)

OrFiredFromRecursion ==
    /\ orN >= 5
    /\ IsClosed(OrOut)
    /\ sigClosed[5] /\ \A i \in 1..orN : i # 5 => ~sigClosed[i]

\* C10: Steward restart.  While the steward's done is open, every
\* timeoutSignal that fired has been answered by exactly one restart, is
\* being answered (it waits in the steward's select), or was dropped because a
\* ward pulse won the select; a ward that never pulses drops none, so k
\* timeouts give exactly k restarts (k + 1 calls of startGoroutine).  Every
\* restart closed the wardDone of the ward it replaced and of no other.  And
\* under fair scheduling a fired timeoutSignal is answered unless done is
\* closed.
StewardRestarts ==
    /\ [](~stewardDone /\ stewardPc # "start" =>
            /\ started + discarded + PendingTimeout = elapsed + 1
            /\ wardKind = "nil" => discarded = 0
            /\ \A w \in 1..started :
                  wardDoneClosed[w] <=> (w < started \/ stewardPc = "restart"))
    /\ (timeoutSignal = "fired") ~> (stewardDone \/ PendingTimeout = 0)

\* The ward that never pulses has been restarted once per timeout, at least
\* twice, with done still open.
StewardRestartedSilentWard ==
    /\ wardKind = "nil"
    /\ ~stewardDone
    /\ elapsed >= 2
    /\ started = elapsed + 1
    /\ wardDoneClosed[elapsed]

\* The wards whose goroutine has been started and has not halted.
RunningWards == {w \in Wards : wardPc[w] = "running"}

\* C11: at most one ward is active at any time: when the steward has started
\* a new ward, no goroutine of an earlier ward is still running.
OneWardActive == Cardinality(RunningWards) <= 1

\* C12: whenever the steward calls startGoroutine for a ward other than the
\* first, the wardDone of every ward started before has already been closed.
WardDoneClosedBeforeRestart ==
    [][started' # started => \A w \in 1..started : wardDoneClosed[w]]_vars

\* A second ward has been started and the first ward's wardDone is closed.
StewardStartedSecondWard ==
    /\ started = 2
    /\ wardDoneClosed[1]
    /\ stewardPc = "monitor"

\* C13: once the steward's done is closed the steward does not restart the
\* ward: startGoroutine is not called again.
NoRestartAfterDone ==
    [][stewardDone /\ started >= 1 => started' = started]_vars

\* C14: after the steward's done is closed the steward returns and closes its
\* heartbeat once, and a consumer ranging over that heartbeat ends, whatever
\* the ward does (no heartbeat, silent, pulsing, heartbeat closed).
StewardTerminates ==
    stewardDone ~> (stewardPc = "returned" /\ stewardHbCloses = 1 /\ listener # "ranging")

\* The steward returned after done was closed while its pulsing ward had
\* already halted and closed its heartbeat, and the ranging consumer ended.
StewardReturnedWithClosedWard ==
    /\ stewardDone
    /\ stewardPc = "returned"
    /\ stewardHbCloses = 1
    /\ listener = "ended"
    /\ wardKind = "pulsing"
    /\ wardPc[started] = "halted"

\* C15: the steward's own pulse never blocks it: with nobody receiving from
\* the steward's heartbeat, the k-th timeout of a silent ward is still
\* answered by the k-th restart unless done is closed.
StewardPulseNeverBlocks ==
    \A k \in 1..MaxTimeouts :
        (listener = "none" /\ wardKind = "nil" /\ elapsed = k)
            ~> (stewardDone \/ started = k + 1)

\* With no listener a pulse of the steward was dropped and the silent ward
\* has been restarted twice since.
StewardRestartedAfterDroppedPulse ==
    /\ listener = "none"
    /\ wardKind = "nil"
    /\ pulseDropped
    /\ ~stewardDone
    /\ started = 3

\* C16: the heartbeat never blocks the data path.  The heartbeat buffer never
\* holds more than its one pulse (a pulse that finds it full is dropped), and
\* when nobody ever receives from the heartbeat channel and done stays open,
\* DoWork / DoWork1 deliver all of nums to the ranging consumer and close
\* both channels.
HeartbeatNeverBlocksData ==
    /\ [](heartbeat <= 1)
    /\ (HasHeartbeat /\ nStages = 0 /\ pc[Consumer] = "range" /\ pc[0] = "sleep")
          ~> \/ done
             \/ firstHb # "none"
             \/ /\ received = nums
                /\ closes[0] = 1
                /\ heartbeatCloses = 1
                /\ pc[Consumer] = "done"

\* DoWork delivered two or more values and closed both channels while its
\* first pulse was never taken out of the buffer.
DataDeliveredWithoutListener ==
    /\ srcKind = "DoWork"
    /\ nStages = 0
    /\ Len(nums) >= 2
    /\ ~done
    /\ firstHb = "none"
    /\ heartbeat = 1
    /\ received = nums
    /\ closes[0] = 1 /\ heartbeatCloses = 1

\* C17: with a non-empty nums, the first receive from DoWork's heartbeat
\* channel never yields the zero value of the closed channel: it yields a
\* pulse, however late it comes.
WorkStartPulseKept ==
    (srcKind = "DoWork" /\ nums # <<>>) => firstHb # "zero"

\* The first receive came after DoWork had finished and closed the heartbeat
\* channel, and took the pulse left in the buffer.
LatePulseReceived ==
    /\ srcKind = "DoWork"
    /\ nums # <<>>
    /\ firstHb = "latePulse"
    /\ pc[0] = "returned"

\* C19: the consumer of DoWork receives its first heartbeat pulse before the
\* startup delay (time.Sleep) of DoWork has elapsed.
PulseBeforeDelayElapsed ==
    [][(srcKind = "DoWork" /\ firstHb = "none" /\ firstHb' # "none") => pc[0] = "sleep"]_vars

\* C18: no false alarm.  With DoWork1 pulsing every second and the test that
\* waits for the first heartbeat and then selects on results, heartbeat and a
\* fresh timeout of two seconds, the timeout branch is never taken, and the
\* test sees results closed after it received all of nums in order.
NoFalseAlarm ==
    /\ [](srcKind = "DoWork1" => pc[Consumer] # "timedOut")
    /\ (srcKind = "DoWork1") ~> (pc[Consumer] = "done" /\ received = nums)

\* The test of DoWork1 got its first pulse, then two or more values, then
\* the close of results.
WatchedToTheEnd ==
    /\ srcKind = "DoWork1"
    /\ timeoutLen = WatchTimeout
    /\ firstHb = "pulse"
    /\ Len(nums) >= 2
    /\ received = nums
    /\ pc[Consumer] = "done"

\* C20: a consumer ranging over orDone(done, c) terminates once c or done is
\* closed: valStream is closed and the range ends.  While done is open, what
\* the consumer has received is what orDone has taken from c, in order, less
\* the value it holds; so when the range ends with done open the consumer has
\* received exactly the values sent on c.
OrDoneTerminates ==
    /\ (cCloses > 0 \/ odDone) ~> (valStreamCloses = 1 /\ odConsumer = "done")
    /\ [](~odDone =>
            /\ odReceived = SubSeq(cValues, 1, IF odPc = "send" THEN cSent - 1 ELSE cSent)
            /\ odConsumer = "done" => odReceived = cValues)

\* c was closed after two or more values, done never was, and the range
\* ended with all of them received.
OrDoneDrained ==
    /\ ~odDone
    /\ cCloses = 1
    /\ Len(cValues) >= 2
    /\ odReceived = cValues
    /\ odConsumer = "done"

\* C21: or with no channel returns nil, a channel that is never closed, and or
\* with one channel returns that very channel (closed exactly when the input
\* is); in both cases no goroutine is started.
OrBaseCases ==
    /\ orN = 0 => OrOut = Nil /\ ~IsClosed(OrOut)
    /\ orN = 1 => OrOut = OrInputs[1] /\ (IsClosed(OrOut) <=> sigClosed[1])
    /\ orN <= 1 =>
          /\ Tree = <<>>
          /\ \A l \in 1..MaxOr : orPc[l] = "none" /\ orCloses[l] = 0
          /\ or2Pc = "none"

\* or was given one channel and that channel has been closed.
OrOfOneFired ==
    /\ orN = 1
    /\ sigClosed[1]
    /\ IsClosed(OrOut)

\* C23: once the channel the outermost or returned is closed, every goroutine
\* the nested calls of or have started returns, whichever input channels stay
\* open.
OrTreeCleanup ==
    (orN >= 2 /\ IsClosed(OrOut)) ~>
        (\A l \in 1..Len(Tree) : orPc[l] \in {"none", "returned"})

\* Three levels of or have returned although only the first input was ever
\* closed.
OrTreeCleanedUp ==
    /\ orN = MaxOr
    /\ Len(Tree) >= 3
    /\ sigClosed[1] /\ \A i \in 2..orN : ~sigClosed[i]
    /\ \A l \in 1..Len(Tree) : orPc[l] = "returned"

\* C24: the done channel handed to a ward is or(wardDone, done): once the
\* steward's done is closed, or the steward has closed the ward's wardDone,
\* the channel that ward was given is closed, once and for good, and the ward
\* halts.
WardHaltedWithSteward ==
    \A w \in Wards :
        (wardOrPc[w] # "none" /\ (stewardDone \/ wardDoneClosed[w]))
            ~> (wardOrCloses[w] = 1 /\ wardPc[w] = "halted")

\* The steward's done was closed: the ward of that moment halted with its own
\* wardDone still open, the ward before it had been halted by the steward.
WardHaltedByStewardDone ==
    /\ stewardDone
    /\ started >= 2
    /\ ~wardDoneClosed[started]
    /\ wardOrCloses[started] = 1 /\ wardPc[started] = "halted"
    /\ wardDoneClosed[1]
    /\ wardOrCloses[1] = 1 /\ wardPc[1] = "halted"

\* C22: fan-in keeps the items but not their order.  What the consumer has
\* received are items the multiplex goroutines read, each once, the items of
\* one input in that input's order; an item read and not received is the one
\* its multiplex holds; and when the range ends with done open the received
\* items are the items read.  Nothing makes the received sequence follow the
\* order of the reads: FanInReordered is a reachable state where it does not.
FanInKeepsItemsOnly ==
    /\ NoDuplicates(merged)
    /\ Range(merged) \subseteq Range(readOrder)
    /\ \A it \in Range(readOrder) \ Range(merged) :
          mpc[it[1]] \in {"select", "returned"} /\ mval[it[1]] = it
    /\ \A a, b \in 1..Len(merged) :
          a < b /\ merged[a][1] = merged[b][1] => merged[a][2] < merged[b][2]
    /\ ~fanDone /\ fanConsumer = "done" => Range(merged) = Range(readOrder)

\* Two workers, two or more items: the consumer has received every item read,
\* in an order other than the order of the reads.
FanInReordered ==
    /\ ~fanDone
    /\ nInputs >= 2
    /\ Len(readOrder) >= 2
    /\ fanConsumer = "done"
    /\ Range(merged) = Range(readOrder)
    /\ Len(merged) = Len(readOrder)
    /\ merged # readOrder

TakeLimitsRepeat ==
    /\ [](/\ Len(taken) <= numTake
          /\ repHanded <= numTake
          /\ RepeatProduced <= numTake + 1
          /\ takeStreamCloses <= 1
          /\ takeStreamCloses > 0 /\ ~tnDone =>
                 taken = Repeated(repValues, numTake))
    /\ (repValues # <<>> \/ numTake = 0) ~> (takeStreamCloses = 1)

\* done is open, the consumer has its num values and saw takeStream closed,
\* and repeat sits in its send with value num + 1.
TakeStoppedRepeat ==
    /\ ~tnDone
    /\ numTake >= 2
    /\ Len(repValues) >= 2
    /\ takeConsumer = "done"
    /\ Len(taken) = numTake
    /\ repPc = "select"
    /\ RepeatProduced = numTake + 1

\* C26: bridge presents an unbroken stream.  With done open, what the consumer
\* has received is all values of the inner channels bridge has finished, one
\* channel after the other and each in its order, followed by the values
\* taken so far from the channel of the moment, less the one bridge holds:
\* none lost, none twice.  valStream is closed once, only after chanStream is
\* closed, and then the consumer has the values of every inner channel; and
\* once chanStream is closed valStream is closed and the range ends.
BridgeUnbroken ==
    /\ [](~odDone =>
            /\ bridged =
                  Flatten(IF bridgePc \in {"range", "send"}
                          THEN streamsHanded - 1 ELSE streamsHanded)
                  \o (IF bridgePc = "range" THEN odReceived
                      ELSE IF bridgePc = "send"
                           THEN SubSeq(odReceived, 1, Len(odReceived) - 1)
                           ELSE <<>>)
            /\ bridgeCloses <= 1
            /\ bridgeCloses > 0 => chanStreamCloses > 0 /\ bridged = Flatten(nStreams))
    /\ (chanStreamCloses > 0) ~> (bridgeCloses = 1 /\ bridgeConsumer = "done")

\* Two or more inner channels, none empty, one with two or more values: the
\* range ended with done open and the consumer has all their values.
BridgedAll ==
    /\ ~odDone
    /\ nStreams >= 2
    /\ \A k \in 1..nStreams : streamLens[k] >= 1
    /\ \E k \in 1..nStreams : streamLens[k] >= 2
    /\ bridgeConsumer = "done"
    /\ bridged = Flatten(nStreams)

\* C28: the consumer of the work-start heartbeat example receives exactly one
\* pulse for every result: when its loop returns with done still open it has
\* received as many pulses as results.
PulseForEveryResult ==
    pc[Consumer] = "done" /\ ~done => pulses = Len(received)

\* C29: when the worker stops after its two loop iterations without closing
\* heartbeat or results, the observer does not block forever: its select never
\* waits longer than the timeout, the timeout case fires one timeout after the
\* observer's last pulse or result, and the observer reports the worker as
\* not healthy.
UnhealthyWorkerDetected ==
    /\ [](obsPc = "select" => obsWaited <= HealthTimeout)
    /\ [](obsPc = "unhealthy" => obsWaited = HealthTimeout)
    /\ (fwPc = "exited" ~> obsPc = "unhealthy")

UnhealthyAfterPanic ==
    /\ fwPc = "exited"
    /\ fwI = FaultyIterations
    /\ ~fwDone
    /\ obsSeen
    /\ obsPc = "unhealthy"

\* C30: main receives exactly one result, and after it has closed done every
\* handler returns, whether it was waiting for its load or to send its result,
\* so that wg.Wait() returns.
ReplicatedRequestsFinish ==
    /\ [](resultsReceived <= 1)
    /\ [](replDone => resultsReceived = 1)
    /\ <>(mainPc = "finished")
    /\ (replDone ~> (mainPc = "finished" /\ \A h \in Handlers : handlerPc[h] = "returned"))

HandlersCancelled ==
    /\ mainPc = "finished"
    /\ handlersWg = 0
    /\ firstReturned \in Handlers
    /\ \A h \in Handlers : handlerPc[h] = "returned"

\* C31: printGreeting3 fails with the deadline error, main cancels the Context,
\* and printFarewell3 returns the error "context canceled": it never prints
\* its farewell.
FarewellCancelled ==
    /\ [](~printed["farewell"])
    /\ [](callPc["farewell"] = "done" => callErr["farewell"] = "Canceled")
    /\ [](callPc["greeting"] = "done" => callErr["greeting"] = "DeadlineExceeded")
    /\ <>(callPc["farewell"] = "done")

FarewellGaveUpWaiting ==
    /\ callPc["farewell"] = "done"
    /\ callErr["farewell"] = "Canceled"
    /\ localeWaited["farewell"] > 0
    /\ ctxWg = 0

\* C32: main's loop eventually adds all its items, the queue never holds more
\* than 2 items, and an item is never added to a queue that holds 2 items:
\* main adds again only after a removal has made room.
QueueBounded ==
    /\ [](queueLen <= QueueLimit)
    /\ [](~fullAtAdd)
    /\ [](queuePc = "add" => queueLen < QueueLimit)
    /\ <>(queuePc = "finished" /\ queueI = NumQueued)

QueueFilledAfterWaiting ==
    /\ queuePc = "finished"
    /\ queueI = NumQueued
    /\ queueLen = QueueLimit
    /\ \E r \in Removers : removerPc[r] = "done"

\* C33: once the three handlers are subscribed, the one Broadcast makes all of
\* them run, so that clickRegistered.Wait() returns in every interleaving.
BroadcastReachesAll == <>(buttonPc = "finished")

\* C34: the producer is able to place all five of its results on intStream
\* and exit before main pulls even one result off: as long as main has pulled
\* nothing the producer has room for its send, and it can have exited then.
ProducerNeedsNoPull ==
    pulled = 0 /\ producerPc = "send" => HasRoom

\* C35: printSum(&a, &b) and printSum(&b, &a) running concurrently can reach a
\* state in which each holds its first mutex and waits for the other's; from
\* that state neither call ever goes on and wg.Wait() never returns.
DeadlockIsForever ==
    [](GearsLocked => [](GearsLocked /\ sumWg = 2 /\ sumMain = "wait"))

BothHoldFirstMutex ==
    /\ GearsLocked
    /\ sumArgs[1] = <<"a", "b">>
    /\ sumArgs[2] = <<"b", "a">>
    /\ ~ENABLED NextSum

\* C36: when Alice and Barbara move at the same cadence, every tryLeft and
\* tryRight of both fails, each counter is back at 0 once both have finished
\* the attempt, and after 5 rounds both give up and peopleInHallway.Wait()
\* returns.
LivelockThenGiveUp ==
    /\ [](\A w \in Walkers : succeeded[w] = "none")
    /\ []((\A w \in Walkers : walkPc[w] \in {"add", "return", "done"})
            => \A d \in Dirs : dirCount[d] = 0)
    /\ [](hallMain = "finished" => \A w \in Walkers : walkI[w] = WalkRounds)
    /\ <>(hallMain = "finished")

BothGaveUp ==
    /\ hallMain = "finished"
    /\ \A w \in Walkers :
        /\ walkI[w] = WalkRounds
        /\ Len(walkOut[w]) = 2 * WalkRounds + 1
        /\ walkOut[w][Len(walkOut[w])] = "exasperation"

\* C40: under any interleaving each direction counter stays within 0..2 and
\* at most one walker ever succeeds in a given direction; a walker succeeds
\* only if it reads the counter as 1 after its own increment, and a walker
\* that succeeded never decrements the counter.
HallwayCounters ==
    /\ [](\A d \in Dirs : dirCount[d] \in 0..2)
    /\ [](\A v, w \in Walkers : succeeded[v] # "none" /\ succeeded[v] = succeeded[w] => v = w)
    /\ [][\A w \in Walkers : succeeded'[w] # succeeded[w]
            => walkPc[w] = "load" /\ dirCount[walkDir[w]] = 1 /\ succeeded'[w] = walkDir[w]]_vars
    /\ [][\A d \in Dirs : dirCount'[d] < dirCount[d]
            => \E w \in Walkers : walkPc[w] = "sub" /\ walkDir[w] = d /\ succeeded[w] = "none"]_vars
    /\ [](\A w \in Walkers : succeeded[w] # "none" => dirCount[succeeded[w]] >= 1)

OneWalkerPassed ==
    /\ hallMain = "finished"
    /\ succeeded["Alice"] = "left"
    /\ succeeded["Barbara"] = "right"
    /\ dirCount = [d \in Dirs |-> 1]

RECURSIVE IsSubSeq(_, _)
IsSubSeq(s, t) ==
    IF s = <<>> THEN TRUE
    ELSE IF t = <<>> THEN FALSE
    ELSE IF Head(s) = Head(t) THEN IsSubSeq(Tail(s), Tail(t))
    ELSE IsSubSeq(s, Tail(t))

\* the values orDone has taken from c and no longer holds
PassedOn == SubSeq(cValues, 1, IF odPc = "send" THEN cSent - 1 ELSE cSent)

\* C38: what the consumer has received from orDone(done, c) is a subsequence,
\* in order and without a value twice, of the values sent on c, and while
\* done is open no value orDone has received from c is dropped.
OrDoneSubsequence ==
    /\ IsSubSeq(odReceived, PassedOn)
    /\ ~odDone => Len(odReceived) = Len(PassedOn)

OrDoneDroppedInBetween ==
    /\ odDone
    /\ odReceived # <<>>
    /\ odReceived # SubSeq(cValues, 1, Len(odReceived))
    /\ cSent = Len(cValues)

\* C39: take emits at most num items, and a valueStream closed before num
\* values were produced does not make it close early: with done open,
\* takeStream is closed after exactly num items, the values that were sent
\* followed by the zero value of the closed channel, and it is closed in the
\* end.
TakeFillsWithZero ==
    /\ [](/\ Len(taken) <= numTake
          /\ takeStreamCloses > 0 /\ ~tnDone =>
                 taken = ReceivedFromClosed(repValues, numTake))
    /\ <>(takeStreamCloses = 1)

\* one value was sent before valueStream was closed; take was asked for two
\* and the consumer got the value and a zero value.
TakeEmittedZero ==
    /\ ~tnDone
    /\ numTake = 2
    /\ Len(repValues) = 1
    /\ repCloses = 1
    /\ takeConsumer = "done"
    /\ taken = <<repValues[1], ZeroValue>>

=============================================================================
